---- MODULE Spec2Model ----
(***************************************************************************)
(* Verification model of the tweet sentiment pipeline backend:             *)
(*   - job life cycle of cleaning, labeling and training jobs against the  *)
(*     external metadata/object store (routers + run_*_job workers);       *)
(*   - the cleaning pipeline and its process-wide metrics accumulator;     *)
(*   - column validation, keyword labeling, manual/cluster labeling;       *)
(*   - the custom KNN classifier over Jaccard distance.                    *)
(* Each part has its own specification over its own group of variables;    *)
(* the variables of the other parts stay at their idle value.              *)
(***************************************************************************)
EXTENDS Integers, Sequences, FiniteSets, TLC

None == "None"

\* no function is being applied
Idle == [op |-> "idle"]

(***************************************************************************)
(* Bounds of the model.                                                    *)
(***************************************************************************)
MaxJobs == 2

VARIABLES
    jobs,          \* job_id -> job record of clean_jobs / label_jobs / training_jobs
    pc,            \* job_id -> position of the background task of the job
    dataset,       \* the dataset record (cleaned_file, labeled_file, status)
    models,        \* job_id -> model_file of the trained_models record of the job
    nextJob,       \* next free job id
    exc,           \* job_id -> the exception the task is handling (None: none)
    fileSource,    \* job_id -> which file of the dataset record the run loads
    promoted,      \* history: jobs whose run wrote a file field of a record
    call,          \* the function applied and its arguments
    ret,           \* its state while it runs, and its result
    cleaning_metrics,  \* the module's global metrics accumulator
    run            \* cleaning run -> the locals of run_cleaning_job

jobVars == <<jobs, pc, dataset, models, nextJob, exc, fileSource, promoted>>

callVars == <<call, ret>>

cleanVars == <<cleaning_metrics, run>>

vars == <<jobVars, callVars, cleanVars>>

(***************************************************************************)
(* Job records and the store.                                              *)
(***************************************************************************)
JobIds == 1..MaxJobs

Kinds == {"clean", "label", "train"}

\* create_clean_job / create_label_job insert "pending", create_training_job "queued"
InitialStatus(kind) == IF kind = "train" THEN "queued" ELSE "pending"

\* mark_job_failed writes "error" for clean and label jobs, "failed" for training
FailedStatus(kind) == IF kind = "train" THEN "failed" ELSE "error"

TerminalStatuses == {"completed", "error", "failed"}

\* the trained_models record of a training job ("absent": not inserted)
NoModel == [model_file |-> "absent", metrics |-> None]

NoJob == [kind |-> None, status |-> "absent", progress |-> 0, message |-> None,
          file |-> None, method |-> None, response |-> 0]

\* The store calls of one run, in program order.  "compute" stands for the
\* in-process work between two store calls (parsing, the pipeline stages or
\* the fit, with the progress updates they interleave): it returns or raises.
CleanProg ==
    << [op |-> "running",   p |-> 1],
       [op |-> "progress",  p |-> 5],
       [op |-> "select",    p |-> 5],
       [op |-> "download",  p |-> 5],
       [op |-> "progress",  p |-> 15],
       [op |-> "compute",   p |-> 15],
       [op |-> "progress",  p |-> 85],
       [op |-> "upload",    p |-> 85],
       [op |-> "promote",   p |-> 85],
       [op |-> "completed", p |-> 100],
       [op |-> "progress",  p |-> 100] >>

LabelProg ==
    << [op |-> "running",   p |-> 1],
       [op |-> "progress",  p |-> 10],
       [op |-> "select",    p |-> 10],
       [op |-> "download",  p |-> 10],
       [op |-> "compute",   p |-> 10],
       [op |-> "progress",  p |-> 80],
       [op |-> "upload",    p |-> 80],
       [op |-> "insert",    p |-> 80],
       [op |-> "promote",   p |-> 80],
       [op |-> "completed", p |-> 100] >>

TrainProg ==
    << [op |-> "running",   p |-> 1],
       [op |-> "progress",  p |-> 10],
       [op |-> "select",    p |-> 10],
       [op |-> "download",  p |-> 10],
       [op |-> "extract",   p |-> 10],
       [op |-> "progress",  p |-> 30],
       [op |-> "progress",  p |-> 50],
       [op |-> "compute",   p |-> 50],
       [op |-> "progress",  p |-> 80],
       [op |-> "upload",    p |-> 80],
       [op |-> "promote",   p |-> 80],
       [op |-> "progress",  p |-> 100],
       [op |-> "completed", p |-> 100] >>

Prog(kind) ==
    CASE kind = "clean" -> CleanProg
      [] kind = "label" -> LabelProg
      [] OTHER          -> TrainProg

\* position of a task: in the try block at store call i of Prog, in the
\* except clause ("handler", then "cleanup"), not scheduled, or finished
At(where, i) == [at |-> where, i |-> i]

AtOp(j, op) ==
    /\ pc[j].at = "try"
    /\ Prog(jobs[j].kind)[pc[j].i].op = op

Advance(j) ==
    IF pc[j].i = Len(Prog(jobs[j].kind)) THEN At("done", 0) ELSE At("try", pc[j].i + 1)

\* an exception raised inside the try block of run_*_job: control moves to
\* the except clause, which starts with mark_job_failed
Raise(j, what) ==
    /\ pc' = [pc EXCEPT ![j] = At("handler", 0)]
    /\ exc' = [exc EXCEPT ![j] = what]
    /\ UNCHANGED fileSource

\* the store call returned: on to the next one; after the last one the task
\* function returns and its locals are gone
Return(j) ==
    /\ pc' = [pc EXCEPT ![j] = Advance(j)]
    /\ fileSource' = [fileSource EXCEPT ![j] = IF Advance(j).at = "done" THEN None ELSE @]
    /\ UNCHANGED exc

\* the except clause ends (or its exception escapes the task)
Finish(j) ==
    /\ pc' = [pc EXCEPT ![j] = At("done", 0)]
    /\ exc' = [exc EXCEPT ![j] = None]
    /\ fileSource' = [fileSource EXCEPT ![j] = None]

NoDataset == [cleaned_file |-> None, labeled_file |-> None, status |-> "Uploaded", has_target |-> FALSE]

\* CleaningOptions(): no stage configured
NoOptions ==
    [column_validations |-> <<>>, remove_duplicates |-> FALSE, text_cleaning |-> <<>>,
     missing_value_options |-> <<>>, keep_columns |-> <<>>]

\* the cleaning runs of the process
Runs == {1, 2}

NoRun ==
    [at |-> "absent", stage |-> 0, raw |-> <<>>, options |-> NoOptions, df |-> <<>>,
     initial_row_count |-> 0, done |-> <<>>, metrics |-> [k \in {} |-> 0],
     columns |-> <<>>, cleaned_file |-> <<>>]

NoRuns ==
    /\ cleaning_metrics = [k \in {} |-> 0]
    /\ run = [r \in Runs |-> NoRun]

NoJobs ==
    /\ jobs = [j \in JobIds |-> NoJob]
    /\ pc = [j \in JobIds |-> At("unscheduled", 0)]
    /\ models = [j \in JobIds |-> NoModel]
    /\ nextJob = 1
    /\ exc = [j \in JobIds |-> None]
    /\ fileSource = [j \in JobIds |-> None]
    /\ promoted = {}

JobsInit ==
    /\ NoJobs
    /\ NoRuns
    /\ dataset \in [cleaned_file : {None, "cleaned"}, labeled_file : {None},
                    status : {"Uploaded"}, has_target : BOOLEAN]
    /\ call = Idle
    /\ ret = Idle

(***************************************************************************)
(* Routers: one action per request handler.  A handler that raises an      *)
(* HTTPException before create_*_job writes nothing to the store; the      *)
(* response a job's request got is kept with the job (field response).     *)
(***************************************************************************)
Rejected == UNCHANGED <<jobs, nextJob, pc, models>>

CreateJob(j, kind, method, code) ==
    /\ jobs' = [jobs EXCEPT ![j] = [kind |-> kind, status |-> InitialStatus(kind),
                                    progress |-> 0, message |-> "Queued",
                                    file |-> None, method |-> method,
                                    response |-> code]]
    /\ nextJob' = j + 1

\* BackgroundTasks.add_task
AddTask(j) == pc' = [pc EXCEPT ![j] = At("try", 1)]

\* routers/clean.py start_cleaning
start_cleaning(session_ok, dataset_known, options_ok) ==
    /\ UNCHANGED <<dataset, exc, fileSource, promoted, callVars, cleanVars>>
    /\ IF ~session_ok THEN Rejected          \* 400
       ELSE IF ~dataset_known THEN Rejected  \* 404
       ELSE IF ~options_ok THEN Rejected     \* 400
       ELSE /\ nextJob \in JobIds
            /\ CreateJob(nextJob, "clean", None, 200)
            /\ AddTask(nextJob)
            /\ UNCHANGED models

LabelMethods == {None, "manual", "naive", "clustering", "invalid_method"}

\* routers/label.py label_dataset: the job is created after the session,
\* method-present, dataset and cleaned-file checks and before the dispatch
\* on the method
label_dataset(session_ok, method, dataset_known, algorithm) ==
    /\ UNCHANGED <<dataset, exc, fileSource, promoted, callVars, cleanVars>>
    /\ IF ~session_ok THEN Rejected                      \* 400
       ELSE IF method = None THEN Rejected               \* 400
       ELSE IF ~dataset_known THEN Rejected              \* 404
       ELSE IF dataset.cleaned_file = None THEN Rejected \* 400
       ELSE /\ nextJob \in JobIds
            /\ UNCHANGED models
            /\ IF method \in {"manual", "naive"}
                 THEN CreateJob(nextJob, "label", method, 200) /\ AddTask(nextJob)
               ELSE IF method = "clustering"
                 THEN IF algorithm = None
                        THEN CreateJob(nextJob, "label", method, 400) /\ UNCHANGED pc
                        ELSE CreateJob(nextJob, "label", method, 200) /\ AddTask(nextJob)
               ELSE CreateJob(nextJob, "label", method, 400) /\ UNCHANGED pc

\* routers/train.py start_training (the algorithm name is checked by the
\* request model before the handler runs); create_training_job inserts the
\* placeholder model record, then the job
start_training(dataset_known) ==
    /\ UNCHANGED <<dataset, exc, fileSource, promoted, callVars, cleanVars>>
    /\ IF ~dataset_known THEN Rejected       \* 404
       ELSE /\ nextJob \in JobIds
            /\ CreateJob(nextJob, "train", None, 200)
            /\ models' = [models EXCEPT ![nextJob] = [model_file |-> None, metrics |-> None]]
            /\ AddTask(nextJob)

(***************************************************************************)
(* Workers: one action per store call of run_cleaning_job,                 *)
(* run_*_labeling_job and run_training_job.  Every call of the external    *)
(* store either takes effect and returns, or raises without effect.        *)
(***************************************************************************)
Outcomes == {"ok", "raise"}

mark_job_running(j, outcome) ==
    /\ AtOp(j, "running")
    /\ UNCHANGED <<dataset, models, nextJob, promoted, callVars, cleanVars>>
    /\ IF outcome = "ok"
         THEN /\ jobs' = [jobs EXCEPT ![j].status = "running", ![j].progress = 1]
              /\ Return(j)
         ELSE Raise(j, "store") /\ UNCHANGED jobs

\* update_job_progress / update_job: writes progress and message only
update_job(j, outcome) ==
    /\ AtOp(j, "progress")
    /\ UNCHANGED <<dataset, models, nextJob, promoted, callVars, cleanVars>>
    /\ IF outcome = "ok"
         THEN /\ jobs' = [jobs EXCEPT ![j].progress = Prog(jobs[j].kind)[pc[j].i].p,
                                      ![j].message = "progress"]
              /\ Return(j)
         ELSE Raise(j, "store") /\ UNCHANGED jobs

\* the select of the dataset record and the choice of the file to load:
\* cleaning loads original_file, labeling cleaned_file or original_file,
\* training labeled_file > cleaned_file > original_file
FileToUse(kind) ==
    CASE kind = "clean" -> "original"
      [] kind = "label" -> IF dataset.cleaned_file # None THEN "cleaned" ELSE "original"
      [] OTHER -> IF dataset.labeled_file # None THEN "labeled"
                  ELSE IF dataset.cleaned_file # None THEN "cleaned" ELSE "original"

select_dataset(j, outcome) ==
    /\ AtOp(j, "select")
    /\ UNCHANGED <<jobs, dataset, models, nextJob, promoted, callVars, cleanVars>>
    /\ IF outcome = "ok"
         THEN /\ fileSource' = [fileSource EXCEPT ![j] = FileToUse(jobs[j].kind)]
              /\ pc' = [pc EXCEPT ![j] = Advance(j)]
              /\ UNCHANGED exc
         ELSE Raise(j, "store")

download(j, outcome) ==
    /\ AtOp(j, "download")
    /\ UNCHANGED <<jobs, dataset, models, nextJob, promoted, callVars, cleanVars>>
    /\ IF outcome = "ok" THEN Return(j) ELSE Raise(j, "store")

\* train_service.extract_text_and_target: a cleaned or original file without
\* a target column raises; a labeled file is read positionally
extract_text_and_target(j) ==
    /\ AtOp(j, "extract")
    /\ UNCHANGED <<jobs, dataset, models, nextJob, promoted, callVars, cleanVars>>
    /\ IF fileSource[j] = "labeled" \/ dataset.has_target
         THEN Return(j)
         ELSE Raise(j, "input")

\* the in-process stage work: returns or raises
compute(j, outcome) ==
    /\ AtOp(j, "compute")
    /\ UNCHANGED <<jobs, dataset, models, nextJob, promoted, callVars, cleanVars>>
    /\ IF outcome = "ok" THEN Return(j) ELSE Raise(j, "stage")

upload(j, outcome) ==
    /\ AtOp(j, "upload")
    /\ UNCHANGED <<jobs, dataset, models, nextJob, promoted, callVars, cleanVars>>
    /\ IF outcome = "ok" THEN Return(j) ELSE Raise(j, "store")

\* the insert into the labelings table
insert_labeling(j, outcome) ==
    /\ AtOp(j, "insert")
    /\ UNCHANGED <<jobs, dataset, models, nextJob, promoted, callVars, cleanVars>>
    /\ IF outcome = "ok" THEN Return(j) ELSE Raise(j, "store")

\* the update that makes the new file current: datasets.cleaned_file,
\* datasets.labeled_file or trained_models.model_file
PromoteEffect(j) ==
    CASE jobs[j].kind = "clean" ->
           /\ dataset' = [dataset EXCEPT !.cleaned_file = "cleaned", !.status = "Cleaned"]
           /\ UNCHANGED models
      [] jobs[j].kind = "label" ->
           /\ dataset' = [dataset EXCEPT !.labeled_file = "labeled", !.status = "Labeled"]
           /\ UNCHANGED models
      [] OTHER ->
           /\ models' = [models EXCEPT ![j].model_file = "model.pkl",
                                       ![j].metrics = "metrics"]
           /\ UNCHANGED dataset

promote_file(j, outcome) ==
    /\ AtOp(j, "promote")
    /\ UNCHANGED <<jobs, nextJob, callVars, cleanVars>>
    /\ IF outcome = "ok"
         THEN /\ PromoteEffect(j)
              /\ promoted' = promoted \cup {j}
              /\ Return(j)
         ELSE Raise(j, "store") /\ UNCHANGED <<dataset, models, promoted>>

mark_job_completed(j, outcome) ==
    /\ AtOp(j, "completed")
    /\ UNCHANGED <<dataset, models, nextJob, promoted, callVars, cleanVars>>
    /\ IF outcome = "ok"
         THEN /\ jobs' = [jobs EXCEPT ![j].status = "completed", ![j].progress = 100,
                                      ![j].file = IF jobs[j].kind = "train"
                                                    THEN None ELSE "path"]
              /\ Return(j)
         ELSE Raise(j, "store") /\ UNCHANGED jobs

\* the except clause: mark_job_failed, not guarded by a try of its own
mark_job_failed(j, outcome) ==
    /\ pc[j].at = "handler"
    /\ UNCHANGED <<dataset, models, nextJob, promoted, callVars, cleanVars>>
    /\ IF outcome = "ok"
         THEN /\ jobs' = [jobs EXCEPT ![j].status = FailedStatus(jobs[j].kind),
                                      ![j].message = exc[j]]
              /\ pc' = [pc EXCEPT ![j] = At("cleanup", 0)]
              /\ UNCHANGED <<exc, fileSource>>
         ELSE /\ Finish(j)
              /\ UNCHANGED jobs

\* the best-effort write after mark_job_failed: the dataset status for
\* cleaning and labeling, the metrics of the model record for training;
\* its own failure is swallowed
CleanupEffect(j) ==
    CASE jobs[j].kind = "clean" ->
           dataset' = [dataset EXCEPT !.status = "CleaningFailed"] /\ UNCHANGED models
      [] jobs[j].kind = "label" ->
           dataset' = [dataset EXCEPT !.status = "LabelingFailed"] /\ UNCHANGED models
      [] OTHER ->
           models' = [models EXCEPT ![j].metrics = "error"] /\ UNCHANGED dataset

cleanup_after_failure(j, outcome) ==
    /\ pc[j].at = "cleanup"
    /\ UNCHANGED <<jobs, nextJob, promoted, callVars, cleanVars>>
    /\ Finish(j)
    /\ IF outcome = "ok" THEN CleanupEffect(j) ELSE UNCHANGED <<dataset, models>>

\* one step of the background task of job j
TaskStep(j) ==
    \/ \E o \in Outcomes : mark_job_running(j, o)
    \/ \E o \in Outcomes : update_job(j, o)
    \/ \E o \in Outcomes : select_dataset(j, o)
    \/ \E o \in Outcomes : download(j, o)
    \/ extract_text_and_target(j)
    \/ \E o \in Outcomes : compute(j, o)
    \/ \E o \in Outcomes : upload(j, o)
    \/ \E o \in Outcomes : insert_labeling(j, o)
    \/ \E o \in Outcomes : promote_file(j, o)
    \/ \E o \in Outcomes : mark_job_completed(j, o)
    \/ \E o \in Outcomes : mark_job_failed(j, o)
    \/ \E o \in Outcomes : cleanup_after_failure(j, o)

Request ==
    \/ \E s, d, o \in BOOLEAN : start_cleaning(s, d, o)
    \/ \E s, d \in BOOLEAN, m \in LabelMethods, a \in {None, "kmeans"} :
          label_dataset(s, m, d, a)
    \/ \E d \in BOOLEAN : start_training(d)

JobsNext ==
    \/ Request
    \/ \E j \in JobIds : TaskStep(j)

SpecJobs == JobsInit /\ [][JobsNext]_vars

\* the task runner runs every scheduled task to its end
FairJobs == SpecJobs /\ \A j \in JobIds : WF_vars(TaskStep(j))

(***************************************************************************)
(* Claims about the job life cycle.                                        *)
(***************************************************************************)
StatusRank(st) ==
    CASE st = "absent" -> 0
      [] st \in {"pending", "queued"} -> 1
      [] st = "running" -> 2
      [] OTHER -> 3

\* C1: the persisted status of every job only moves forward along
\* pending/queued -> running -> completed or error/failed, and once a run has
\* written completed or error/failed no later write of the run changes it,
\* whichever store call of the run fails.
C1_StatusMonotonic ==
    [][\A j \in JobIds :
          /\ StatusRank(jobs'[j].status) >= StatusRank(jobs[j].status)
          /\ jobs[j].status \in TerminalStatuses => jobs'[j].status = jobs[j].status]_vars

\* C3: a run that ended in error/failed did not set cleaned_file,
\* labeled_file or model_file, wherever in the run a store call failed.
C3_FailedRunPromotesNothing ==
    \A j \in JobIds :
        (pc[j].at = "done" /\ jobs[j].status \in {"error", "failed"}) => j \notin promoted

\* C4: every job record that was created eventually reaches completed or
\* error/failed, given that the task runner runs every scheduled task.
C4_EveryJobEnds ==
    \A j \in JobIds :
        (jobs[j].status # "absent") ~> (jobs[j].status \in TerminalStatuses)

\* C5: a request rejected with an input error leaves no job record behind,
\* and no input error is reported through a job that was created and failed.
C5_InputErrorLeavesNoJob ==
    \A j \in JobIds :
        jobs[j].status # "absent" =>
            /\ jobs[j].response = 200
            /\ jobs[j].message # "input"

(***************************************************************************)
(* Cells and tables.  A text is the sequence of its characters; the null   *)
(* cell (NaN of a parsed CSV) is a sequence no text equals.  A table is a  *)
(* sequence of rows, a row a sequence of cells, addressed by position.     *)
(***************************************************************************)
Null == <<"NaN">>

\* pd.isna / Series.isna
isna(c) == c = Null

\* Series.astype(str) on one cell: NaN becomes the text "nan"
astype_str(c) == IF isna(c) THEN <<"n", "a", "n">> ELSE c

DigitChars == {"0", "1", "2", "3", "4", "5", "6", "7", "8", "9"}

SpaceChars == {" ", "\t", "\n"}

DigitVal(ch) ==
    CASE ch = "0" -> 0 [] ch = "1" -> 1 [] ch = "2" -> 2 [] ch = "3" -> 3
      [] ch = "4" -> 4 [] ch = "5" -> 5 [] ch = "6" -> 6 [] ch = "7" -> 7
      [] ch = "8" -> 8 [] OTHER -> 9

\* a digit that is not a decimal: the superscript two, one character
SuperscriptChars == {"^2"}

\* str.isdigit
isdigit(s) == Len(s) > 0 /\ \A i \in 1..Len(s) : s[i] \in DigitChars \cup SuperscriptChars

\* the texts int(x) accepts, of those of the model: decimal digits only
IsDecimal(s) == Len(s) > 0 /\ \A i \in 1..Len(s) : s[i] \in DigitChars

\* int(x) of a text of digits
RECURSIVE int(_)
int(s) == IF s = <<>> THEN 0
          ELSE 10 * int(SubSeq(s, 1, Len(s) - 1)) + DigitVal(s[Len(s)])

\* str.strip
RECURSIVE lstrip(_)
lstrip(s) == IF s # <<>> /\ Head(s) \in SpaceChars THEN lstrip(Tail(s)) ELSE s

RECURSIVE rstrip(_)
rstrip(s) == IF s # <<>> /\ s[Len(s)] \in SpaceChars
               THEN rstrip(SubSeq(s, 1, Len(s) - 1)) ELSE s

strip(s) == rstrip(lstrip(s))

Column(df, c) == [i \in 1..Len(df) |-> df[i][c + 1]]

NCols(df) == IF df = <<>> THEN 0 ELSE Len(df[1])

\* df[mask]: the rows whose mask is true, in order
RECURSIVE Select(_, _)
Select(df, mask) ==
    IF df = <<>> THEN <<>>
    ELSE (IF Head(mask) THEN <<Head(df)>> ELSE <<>>) \o Select(Tail(df), Tail(mask))

CountTrue(mask) == Cardinality({i \in 1..Len(mask) : mask[i]})

(***************************************************************************)
(* The metrics accumulator: a defaultdict(int).                            *)
(***************************************************************************)
EmptyMetrics == [k \in {} |-> 0]

Get(m, key) == IF key \in DOMAIN m THEN m[key] ELSE 0

\* cleaning_metrics[key] += n
Incr(m, key, n) == [k \in DOMAIN m \cup {key} |-> IF k = key THEN Get(m, key) + n ELSE m[k]]

\* cleaning_metrics[key] = n
Put(m, key, n) == [k \in DOMAIN m \cup {key} |-> IF k = key THEN n ELSE m[k]]

\* "if invalid.any(): cleaning_metrics[key] += invalid.sum()"
IncrIfAny(m, key, n) == IF n > 0 THEN Incr(m, key, n) ELSE m

(***************************************************************************)
(* Column validation (_apply_column_validations).                          *)
(***************************************************************************)
IsLeap(y) == (y % 4 = 0 /\ y % 100 # 0) \/ y % 400 = 0

DaysInMonth(y, m) ==
    IF m = 2 THEN (IF IsLeap(y) THEN 29 ELSE 28)
    ELSE IF m \in {4, 6, 9, 11} THEN 30 ELSE 31

\* strptime directives %Y, %m and %d
MatchesY(s) == Len(s) = 4 /\ IsDecimal(s) /\ int(s) >= 1

MatchesM(s) == IsDecimal(s) /\ Len(s) <= 2 /\ int(s) \in 1..12

MatchesD(s) ==
    \/ IsDecimal(s) /\ Len(s) <= 2 /\ int(s) \in 1..31
    \/ Len(s) = 2 /\ s[1] = " " /\ s[2] \in DigitChars \ {"0"}

\* parse_date: of the formats it tries, only "%Y-%m-%d" matches a text of
\* fewer than 14 characters (the others need a time of day), so on such texts
\* it returns a date exactly when the text is YYYY-M-D with a real day
parse_date_ok(c) ==
    /\ ~isna(c)
    /\ \E k \in 6..Len(c) - 1 :
          /\ MatchesY(SubSeq(c, 1, 4))
          /\ c[5] = "-"
          /\ MatchesM(SubSeq(c, 6, k - 1))
          /\ c[k] = "-"
          /\ MatchesD(SubSeq(c, k + 1, Len(c)))
          /\ int(strip(SubSeq(c, k + 1, Len(c))))
                <= DaysInMonth(int(SubSeq(c, 1, 4)), int(SubSeq(c, 6, k - 1)))

\* the column a rule names: an index in range, or a name of column_mapping;
\* -1 when the rule is skipped ("continue")
ColumnIndex(col_name, df, column_mapping) ==
    IF IsDecimal(col_name)
      THEN (IF int(col_name) >= NCols(df) THEN -1 ELSE int(col_name))
    ELSE IF \E idx \in DOMAIN column_mapping : column_mapping[idx] = col_name
      THEN CHOOSE idx \in DOMAIN column_mapping : column_mapping[idx] = col_name
    ELSE -1

\* whether the rule computes a mask at all
RuleActive(v, df, column_mapping) ==
    /\ ColumnIndex(v.column, df, column_mapping) \in 0..NCols(df) - 1
    /\ v.validation_type = "polarity" => v.allowed_values # {}
    /\ v.validation_type = "max_length" => v.max_length # 0

\* "int(x) if x.isdigit() else None" raises on a digit that is no decimal
PolarityRaises(v, col) ==
    /\ v.validation_type = "polarity"
    /\ \E i \in 1..Len(col) : isdigit(astype_str(col[i])) /\ ~IsDecimal(astype_str(col[i]))

\* col_mask of one rule over the column
ColMask(v, col) ==
    CASE v.validation_type = "polarity" ->
           [i \in 1..Len(col) |->
              \/ (IsDecimal(astype_str(col[i])) /\ int(astype_str(col[i])) \in v.allowed_values)
              \/ isna(col[i])]
      [] v.validation_type = "unique_id" ->
           [i \in 1..Len(col) |->
              /\ ~isna(col[i])
              /\ col[i] # <<>>
              /\ \A k \in 1..i - 1 : col[k] # col[i]]
      [] v.validation_type = "date" ->
           [i \in 1..Len(col) |-> parse_date_ok(col[i])]
      [] v.validation_type = "not_empty" ->
           [i \in 1..Len(col) |-> ~isna(col[i]) /\ strip(astype_str(col[i])) # <<>>]
      [] OTHER ->
           [i \in 1..Len(col) |-> Len(astype_str(col[i])) <= v.max_length]

\* the rows a rule counts in its metric
InvalidCount(v, col) ==
    LET m == ColMask(v, col) IN
    CASE v.validation_type = "polarity" ->
           Cardinality({i \in 1..Len(col) : ~m[i]})
      [] v.validation_type = "unique_id" ->
           Cardinality({i \in 1..Len(col) : ~m[i] /\ ~isna(col[i]) /\ col[i] # <<>>})
      [] v.validation_type = "not_empty" ->
           Cardinality({i \in 1..Len(col) : ~m[i]})
      [] OTHER ->
           Cardinality({i \in 1..Len(col) : ~m[i] /\ ~isna(col[i])})

MetricName(v, c) ==
    (CASE v.validation_type = "polarity" -> "invalid_polarity_"
       [] v.validation_type = "unique_id" -> "repeated_ids_"
       [] v.validation_type = "date" -> "wrong_date_format_"
       [] v.validation_type = "not_empty" -> "empty_"
       [] OTHER -> "too_long_") \o ToString(c)

\* the masks combined by "or"
AndMask_mut(mask, col_mask) == [i \in 1..Len(mask) |-> mask[i] \/ col_mask[i]]

\* "mask = mask & col_mask"
AndMask(mask, col_mask) == [i \in 1..Len(mask) |-> mask[i] /\ col_mask[i]]

\* the loop over the rules: the mask and the metrics after the first n rules
RECURSIVE ValidationLoop(_, _, _, _, _)
ValidationLoop(df, validations, column_mapping, metrics, n) ==
    IF n = 0 THEN [mask |-> [i \in 1..Len(df) |-> TRUE], metrics |-> metrics]
    ELSE LET before == ValidationLoop(df, validations, column_mapping, metrics, n - 1)
             v == validations[n]
             c == ColumnIndex(v.column, df, column_mapping)
         IN  IF ~RuleActive(v, df, column_mapping) THEN before
             ELSE IF PolarityRaises(v, Column(df, c))
               THEN [mask |-> [i \in 1..Len(df) |-> FALSE],
                     metrics |-> Incr(before.metrics,
                                      "wrong_polarity_format_" \o ToString(c), Len(df))]
             ELSE [mask |-> AndMask(before.mask, ColMask(v, Column(df, c))),
                   metrics |-> IncrIfAny(before.metrics, MetricName(v, c),
                                         InvalidCount(v, Column(df, c)))]

\* _apply_column_validations, with the metrics accumulator passed through
apply_column_validations(df, validations, column_mapping, metrics) ==
    IF validations = <<>> THEN [df |-> df, metrics |-> metrics]
    ELSE LET r == ValidationLoop(df, validations, column_mapping, metrics, Len(validations))
         IN  [df |-> Select(df, r.mask),
              metrics |-> IncrIfAny(r.metrics, "rows_removed_validation",
                                    Len(df) - CountTrue(r.mask))]

(***************************************************************************)
(* Parsing (pd.read_csv(..., header=None) in run_cleaning_job).  The raw   *)
(* file is a sequence of records of fields.  An empty field is NaN; a      *)
(* column of integers with an empty field becomes a float column, whose    *)
(* values print as "4.0"; a column with any other text stays text.         *)
(***************************************************************************)
\* a field the parser reads as an integer
IsIntegerField(f) ==
    /\ f # <<>>
    /\ IF Head(f) = "-" THEN Tail(f) # <<>> /\ Tail(f) \in Seq(DigitChars) ELSE f \in Seq(DigitChars)

RawColumnIsNumeric(raw, c) == \A i \in 1..Len(raw) : raw[i][c] = <<>> \/ IsIntegerField(raw[i][c])

RawColumnHasNull(raw, c) == \E i \in 1..Len(raw) : raw[i][c] = <<>>

ParsedCell(raw, c, field) ==
    IF field = <<>> THEN Null
    ELSE IF RawColumnIsNumeric(raw, c) /\ RawColumnHasNull(raw, c) THEN field \o <<".", "0">>
    ELSE field

read_csv(raw) == [i \in 1..Len(raw) |-> [c \in 1..Len(raw[i]) |-> ParsedCell(raw, c, raw[i][c])]]

(***************************************************************************)
(* Column validation applied to every parsed table of the bounds below.    *)
(***************************************************************************)
MaxRows == 2

MaxRules == 2

\* fields of the two columns of a raw file: a polarity or id column and a
\* text or date column
Fields0 == {<<>>, <<"4">>, <<"7">>, <<"^2">>}

Fields1 == {<<" ">>, <<"2", "0", "0", "9", "-", "2", "-", "5">>}

RawRows == {<<a, b>> : a \in Fields0, b \in Fields1}

RawTables == UNION {[1..n -> RawRows] : n \in 0..MaxRows}

Rule(column, validation_type, allowed_values, max_length) ==
    [column |-> column, validation_type |-> validation_type,
     allowed_values |-> allowed_values, max_length |-> max_length]

\* ColumnValidationOptions; allowed_values {} and max_length 0 are the
\* values the code treats as "not given"
Rules ==
    {Rule(<<"0">>, "polarity", {0, 2, 4}, 0),
     Rule(<<"l", "a", "b", "e", "l">>, "polarity", {4}, 0),
     Rule(<<"0">>, "unique_id", {}, 0),
     Rule(<<"1">>, "not_empty", {}, 0),
     Rule(<<"0">>, "max_length", {}, 2),
     Rule(<<"1">>, "max_length", {}, 0),
     Rule(<<"1">>, "date", {}, 0),
     Rule(<<"5">>, "not_empty", {}, 0),
     Rule(<<"o", "t", "h", "e", "r">>, "unique_id", {}, 0)}

RuleLists == UNION {[1..n -> Rules] : n \in 0..MaxRules}

\* temp_column_mapping of the run: {0: "label"}
ColumnMapping == [idx \in {0} |-> <<"l", "a", "b", "e", "l">>]

ValidateInit ==
    /\ \E raw \in RawTables, validations \in RuleLists :
          call = [op |-> "validate", df |-> read_csv(raw), validations |-> validations]
    /\ ret = Idle
    /\ NoJobs
    /\ NoRuns
    /\ dataset = NoDataset

Validate ==
    /\ call.op = "validate"
    /\ ret = Idle
    /\ ret' = [op |-> "validate"] @@
              apply_column_validations(call.df, call.validations, ColumnMapping, EmptyMetrics)
    /\ UNCHANGED <<call, jobVars, cleanVars>>

SpecValidate == ValidateInit /\ [][Validate]_vars

(***************************************************************************)
(* Claims about column validation.                                         *)
(***************************************************************************)
\* a is b with some rows left out, the others in their order
RECURSIVE IsSubsequence(_, _)
IsSubsequence(a, b) ==
    IF a = <<>> THEN TRUE
    ELSE IF b = <<>> THEN FALSE
    ELSE IF Head(a) = Head(b) THEN IsSubsequence(Tail(a), Tail(b))
    ELSE IsSubsequence(a, Tail(b))

\* one rule re-checked on row i of table out, from the cell alone (and, for
\* unique_id, the rows retained before it); null_passes says whether a
\* null cell satisfies the polarity rule
Recheck(v, out, i, null_passes) ==
    LET c == ColumnIndex(v.column, out, ColumnMapping)
        cell == out[i][c + 1]
        text == IF cell = Null THEN <<"n", "a", "n">> ELSE cell
    IN  \/ c = -1
        \/ v.validation_type = "polarity"
             /\ \/ cell # Null /\ text \in Seq(DigitChars) /\ text # <<>> /\ int(text) \in v.allowed_values
                \/ cell = Null /\ null_passes
        \/ v.validation_type = "unique_id"
             /\ cell # Null /\ cell # <<>>
             /\ \A k \in 1..i - 1 : out[k][c + 1] # cell
        \/ v.validation_type = "date" /\ parse_date_ok(cell)
        \/ v.validation_type = "not_empty"
             /\ cell # Null /\ \E k \in 1..Len(cell) : cell[k] \notin SpaceChars
        \/ v.validation_type = "max_length"
             /\ (v.max_length = 0 \/ Len(text) <= v.max_length)

ValidationHolds(null_passes) ==
    ret.op = "validate" =>
       /\ Len(ret.df) <= Len(call.df)
       /\ IsSubsequence(ret.df, call.df)
       /\ \A i \in 1..Len(ret.df) : \A n \in 1..Len(call.validations) :
             Recheck(call.validations[n], ret.df, i, null_passes)

LowerChar(ch) ==
    CASE ch = "K" -> "k" [] ch = "N" -> "n" [] ch = "O" -> "o" [] ch = "P" -> "p"
      [] ch = "S" -> "s" [] ch = "A" -> "a" [] ch = "B" -> "b" [] OTHER -> ch

\* str.lower
lower(s) == [i \in 1..Len(s) |-> LowerChar(s[i])]

\* "w in t" on texts
Contains(t, w) == \E i \in 0..Len(t) - Len(w) : SubSeq(t, i + 1, i + Len(w)) = w

\* "sum(1 for w in words if w.lower() in t)"
Score(words, t) == Cardinality({i \in 1..Len(words) : Contains(t, lower(words[i]))})

PositiveNames ==
    {<<"p", "o", "s", "i", "t", "i", "v", "e">>, <<"p", "o", "s", "i", "t", "i", "v", "e", "s">>,
     <<"p", "o", "s">>, <<"4">>}

NegativeNames ==
    {<<"n", "e", "g", "a", "t", "i", "v", "e">>, <<"n", "e", "g", "a", "t", "i", "v", "e", "s">>,
     <<"n", "e", "g">>, <<"0">>}

\* the polarity a class name stands for
NamePolarity(name) ==
    IF lower(name) \in PositiveNames THEN 4
    ELSE IF lower(name) \in NegativeNames THEN 0
    ELSE 2

MaxScore(keyword_map, t) ==
    LET scores == {Score(keyword_map[n].words, t) : n \in 1..Len(keyword_map)}
    IN  CHOOSE m \in scores : \A x \in scores : x <= m

\* max(scores.items(), key=lambda kv: kv[1]): the first class of the dict
\* with the highest score
BestLabel(keyword_map, t) ==
    LET best == CHOOSE n \in 1..Len(keyword_map) :
                  /\ Score(keyword_map[n].words, t) = MaxScore(keyword_map, t)
                  /\ \A k \in 1..n - 1 : Score(keyword_map[k].words, t) < MaxScore(keyword_map, t)
    IN  keyword_map[best].label

\* the label of one cell of the text column
KeywordLabel(cell, keyword_map) ==
    LET t == lower(astype_str(cell)) IN
    IF keyword_map = <<>> \/ MaxScore(keyword_map, t) = 0 THEN 2
    ELSE NamePolarity(BestLabel(keyword_map, t))

label_naive_by_keywords(df, keyword_map, text_col_idx) ==
    [i \in 1..Len(df) |-> KeywordLabel(df[i][text_col_idx + 1], keyword_map)]

(***************************************************************************)
(* The keyword labeler applied to every text and keyword map below.        *)
(***************************************************************************)
MaxClasses == 2

LabelTexts ==
    {<<"o", "k">>, <<"N", "O">>, <<"o", "k", " ", "n", "o">>, <<"n", "o", " ", "n", "a", " ", "o", "k">>,
     <<"h", "m">>, Null}

Class(label, words) == [label |-> label, words |-> words]

Classes ==
    {Class(<<"p", "o", "s">>, <<<<"o", "k">>>>),
     Class(<<"N", "e", "g">>, <<<<"n", "o">>>>),
     Class(<<"n", "e", "g", "a", "t", "i", "v", "e", "s">>, <<<<"n", "o">>, <<"N", "a">>>>),
     Class(<<"s", "a", "d">>, <<<<"n", "o">>>>),
     Class(<<"4">>, <<<<"o", "k">>, <<"h", "m">>>>),
     Class(<<"x", "P", "o", "s">>, <<<<"h", "m">>>>)}

\* dicts: no name twice
KeywordMaps ==
    {m \in UNION {[1..n -> Classes] : n \in 0..MaxClasses} :
        \A a, b \in 1..Len(m) : a # b => m[a].label # m[b].label}

KeywordsInit ==
    /\ \E t \in LabelTexts, m \in KeywordMaps :
          call = [op |-> "keywords", df |-> <<<<t>>>>, keyword_map |-> m]
    /\ ret = Idle
    /\ NoJobs
    /\ NoRuns
    /\ dataset = NoDataset

LabelByKeywords ==
    /\ call.op = "keywords"
    /\ ret = Idle
    /\ ret' = [op |-> "keywords", labels |-> label_naive_by_keywords(call.df, call.keyword_map, 0)]
    /\ UNCHANGED <<call, jobVars, cleanVars>>

SpecKeywords == KeywordsInit /\ [][LabelByKeywords]_vars

\* the classes of which a keyword occurs in the lowercased text
ClassesOccurring(keyword_map, t) ==
    {n \in 1..Len(keyword_map) :
        \E i \in 1..Len(keyword_map[n].words) : Contains(t, lower(keyword_map[n].words[i]))}

\* the classes that have the highest number of keywords occurring in the text
TopClasses(keyword_map, t) ==
    LET count(n) == Cardinality({i \in 1..Len(keyword_map[n].words) :
                                    Contains(t, lower(keyword_map[n].words[i]))})
    IN  {n \in 1..Len(keyword_map) : \A k \in 1..Len(keyword_map) : count(k) <= count(n)}

\* C8: the keyword labeler assigns the polarity of class A when only
\* keywords of class A occur in the text, neutral (2) when no keyword of any
\* class occurs, and neutral (2) when two or more classes share the highest
\* score, for every keyword map and every order of its classes.
C8_KeywordLabel ==
    ret.op = "keywords" =>
       LET m == call.keyword_map
           t == lower(astype_str(call.df[1][1]))
           occurring == ClassesOccurring(m, t)
       IN  /\ \A n \in 1..Len(m) : occurring = {n} => ret.labels[1] = NamePolarity(m[n].label)
           /\ occurring = {} => ret.labels[1] = 2
           /\ Cardinality(TopClasses(m, t)) >= 2 => ret.labels[1] = 2

(***************************************************************************)
(* The labeled file of a labeling job: what run_manual_labeling_job,       *)
(* run_naive_labeling_job and run_clustering_labeling_job compute between  *)
(* loading the table and writing it.  Column 0 is the target column.       *)
(***************************************************************************)
DigitChar(n) ==
    CASE n = 0 -> "0" [] n = 1 -> "1" [] n = 2 -> "2" [] n = 3 -> "3" [] n = 4 -> "4"
      [] n = 5 -> "5" [] n = 6 -> "6" [] n = 7 -> "7" [] n = 8 -> "8" [] OTHER -> "9"

\* an integer of -9..9 as the file shows it
str(n) == IF n < 0 THEN <<"-", DigitChar(0 - n)>> ELSE <<DigitChar(n)>>

\* df.iloc[idx, col] = value, idx and col counted from 0
SetCell(df, idx, col, value) == [df EXCEPT ![idx + 1][col + 1] = value]

\* df.iloc[:, col] = values
SetColumn(df, col, values) == [i \in 1..Len(df) |-> [df[i] EXCEPT ![col + 1] = str(values[i])]]

TotalLen(df, c) ==
    LET RECURSIVE Sum(_)
        Sum(i) == IF i = 0 THEN 0 ELSE Sum(i - 1) + Len(astype_str(df[i][c + 1]))
    IN  Sum(Len(df))

\* _find_text_column_index: the first column with the highest average
\* length above 10, else the last column
find_text_column_index(df) ==
    LET long == {c \in 0..NCols(df) - 1 : TotalLen(df, c) > 10 * Len(df)}
    IN  IF long = {} THEN NCols(df) - 1
        ELSE CHOOSE c \in long :
               /\ \A d \in long : TotalLen(df, d) <= TotalLen(df, c)
               /\ \A d \in long : d < c => TotalLen(df, d) < TotalLen(df, c)

\* the loop over the annotations, the first n applied
RECURSIVE ApplyAnnotations(_, _, _)
ApplyAnnotations(df, annotations, n) ==
    IF n = 0 THEN df
    ELSE LET before == ApplyAnnotations(df, annotations, n - 1)
             a == annotations[n]
         IN  IF 0 <= a.row_index /\ a.row_index < Len(df)
               THEN SetCell(before, a.row_index, 0, str(a.label))
               ELSE before

\* "df[df.iloc[:, target_col_idx] != -1]"
KeepLabeled(df) == Select(df, [i \in 1..Len(df) |-> df[i][1] # str(-1)])

\* "label_values[i]" for every cluster id from 0 on, without "[:3]" and
\* without the neutral label for the remaining clusters
map_clusters_to_labels_mut(cluster_labels) ==
    LET unique_clusters == {cluster_labels[i] : i \in 1..Len(cluster_labels)} \cap Nat
        rank(c) == Cardinality({d \in unique_clusters : d < c})
    IN  [i \in 1..Len(cluster_labels) |->
           IF cluster_labels[i] \in unique_clusters
             THEN 2 * rank(cluster_labels[i])
             ELSE 2]

\* _map_clusters_to_labels: the three lowest cluster ids from 0 on map to
\* 0, 2 and 4, every other id and the noise id -1 to 2
map_clusters_to_labels(cluster_labels) ==
    LET unique_clusters == {cluster_labels[i] : i \in 1..Len(cluster_labels)} \cap Nat
        rank(c) == Cardinality({d \in unique_clusters : d < c})
    IN  [i \in 1..Len(cluster_labels) |->
           IF cluster_labels[i] \in unique_clusters /\ rank(cluster_labels[i]) < 3
             THEN 2 * rank(cluster_labels[i])
             ELSE 2]

\* the keyword map of the default files: a class for each file that has words
DefaultKeywordMap(files) ==
    (IF files.positives # <<>>
       THEN <<Class(<<"p", "o", "s", "i", "t", "i", "v", "e", "s">>, files.positives)>> ELSE <<>>)
    \o (IF files.negatives # <<>>
       THEN <<Class(<<"n", "e", "g", "a", "t", "i", "v", "e", "s">>, files.negatives)>> ELSE <<>>)

MaxAnnotations == 2

\* the fields of a cleaned file: a target column of integers and a text column
LabelFields0 == {str(-1), str(0), str(1)}

LabelFields1 == {<<"o", "k">>, <<"N", "O">>}

LabelTables == UNION {[1..n -> {<<a, b>> : a \in LabelFields0, b \in LabelFields1}] : n \in 0..MaxRows}

\* ManualAnnotationRecord: row_index and label, both any integer
Annotations == [row_index : {0, 1, 5}, label : {0, 4, 7}]

AnnotationLists == UNION {[1..n -> Annotations] : n \in 0..MaxAnnotations}

KeywordFiles == [positives : {<<>>, <<<<"o", "k">>>>}, negatives : {<<>>, <<<<"n", "o">>>>}]

\* NaiveLabelRequest.keyword_map: None (the empty map here) or a dict
RequestKeywordMaps ==
    {<<>>, <<Class(<<"s", "a", "d">>, <<<<"n", "o">>>>)>>,
     <<Class(<<"N", "e", "g">>, <<<<"o", "k">>>>)>>}

ClusterIds == -1..3

LabelingInit ==
    /\ \E raw \in LabelTables :
          \/ \E annotations \in AnnotationLists, stop_early \in BOOLEAN :
                call = [op |-> "manual", df |-> read_csv(raw),
                        annotations |-> annotations, stop_early |-> stop_early]
          \/ \E files \in KeywordFiles, keyword_map \in RequestKeywordMaps,
                use_default_keywords \in BOOLEAN :
                call = [op |-> "naive", df |-> read_csv(raw), files |-> files,
                        keyword_map |-> keyword_map,
                        use_default_keywords |-> use_default_keywords]
          \/ \E cluster_labels \in [1..Len(raw) -> ClusterIds] :
                call = [op |-> "clustering", df |-> read_csv(raw), cluster_labels |-> cluster_labels]
    /\ ret = Idle
    /\ NoJobs
    /\ NoRuns
    /\ dataset = NoDataset

run_manual_labeling_job ==
    /\ call.op = "manual"
    /\ ret = Idle
    /\ LET labeled == ApplyAnnotations(call.df, call.annotations, Len(call.annotations))
       IN  ret' = [op |-> "manual",
                   file |-> IF call.stop_early THEN KeepLabeled(labeled) ELSE labeled]
    /\ UNCHANGED <<call, jobVars, cleanVars>>

run_naive_labeling_job ==
    /\ call.op = "naive"
    /\ ret = Idle
    \* keyword_map = {} : the map of the request is dropped, the default files are read
    /\ LET keyword_map == DefaultKeywordMap(call.files)
           labels == label_naive_by_keywords(call.df, keyword_map, find_text_column_index(call.df))
       IN  ret' = IF keyword_map = <<>> THEN [op |-> "failed", file |-> <<>>]
                  ELSE [op |-> "naive", file |-> SetColumn(call.df, 0, labels)]
    /\ UNCHANGED <<call, jobVars, cleanVars>>

\* the clustering itself is a library call: it fails (no text to vectorize)
\* or gives each row some cluster id
run_clustering_labeling_job ==
    /\ call.op = "clustering"
    /\ ret = Idle
    /\ ret' = IF call.df = <<>> THEN [op |-> "failed", file |-> <<>>]
              ELSE [op |-> "clustering",
                    file |-> SetColumn(call.df, 0, map_clusters_to_labels(call.cluster_labels))]
    /\ UNCHANGED <<call, jobVars, cleanVars>>

LabelingNext == run_manual_labeling_job \/ run_naive_labeling_job \/ run_clustering_labeling_job

SpecLabeling == LabelingInit /\ [][LabelingNext]_vars

\* C9: in every labeled file persisted by a manual, naive or clustering
\* labeling job, every value of the target column (column 0) is one of 0, 2, 4.
C9_TargetInPolarityDomain ==
    ret.op \in {"manual", "naive", "clustering"} =>
       \A i \in 1..Len(ret.file) : ret.file[i][1] \in {<<"0">>, <<"2">>, <<"4">>}

(***************************************************************************)
(* CustomKNN (train_service.py): Jaccard distance on the sets of           *)
(* lowercased words, and a heap of the k nearest items seen so far.  A     *)
(* distance is the fraction num/den; heap items are the tuples             *)
(* (-distance, c), here d and c.                                           *)
(***************************************************************************)
\* str.split(): the words between runs of whitespace
RECURSIVE split(_)
split(s) ==
    LET t == lstrip(s) IN
    IF t = <<>> THEN <<>>
    ELSE LET stops == {i \in 1..Len(t) : t[i] \in SpaceChars}
             end == IF stops = {} THEN Len(t) + 1
                    ELSE CHOOSE i \in stops : \A k \in stops : i <= k
         IN  <<SubSeq(t, 1, end - 1)>> \o split(SubSeq(t, end, Len(t)))

WordSet(tweet) == LET words == split(lower(tweet)) IN {words[i] : i \in 1..Len(words)}

\* "if not set1 and not set2" replaced by "if not set1"
jaccard_distance_mut(tweet1, tweet2) ==
    LET set1 == WordSet(tweet1)
        set2 == WordSet(tweet2)
    IN  IF set1 = {} THEN [num |-> 0, den |-> 1]
        ELSE [num |-> Cardinality(set1 \cup set2) - Cardinality(set1 \cap set2),
              den |-> Cardinality(set1 \cup set2)]

\* jaccard_distance of train_service.py: 1 - intersection_size / union_size
jaccard_distance(tweet1, tweet2) ==
    LET set1 == WordSet(tweet1)
        set2 == WordSet(tweet2)
    IN  IF set1 = {} /\ set2 = {} THEN [num |-> 0, den |-> 1]
        ELSE [num |-> Cardinality(set1 \cup set2) - Cardinality(set1 \cap set2),
              den |-> Cardinality(set1 \cup set2)]

\* d1 > d2 and d1 = d2 on distances
Greater(d1, d2) == d1.num * d2.den > d2.num * d1.den

Same(d1, d2) == d1.num * d2.den = d2.num * d1.den

\* (-a.d, a.c) < (-b.d, b.c) on tuples
ItemLess(a, b) == Greater(a.d, b.d) \/ (Same(a.d, b.d) /\ a.c < b.c)

\* heapq._siftdown, positions counted from 0
RECURSIVE siftdown_loop(_, _, _, _)
siftdown_loop(heap, startpos, pos, newitem) ==
    IF pos > startpos /\ ItemLess(newitem, heap[(pos - 1) \div 2 + 1])
      THEN siftdown_loop([heap EXCEPT ![pos + 1] = heap[(pos - 1) \div 2 + 1]],
                         startpos, (pos - 1) \div 2, newitem)
      ELSE [heap EXCEPT ![pos + 1] = newitem]

siftdown(heap, startpos, pos) == siftdown_loop(heap, startpos, pos, heap[pos + 1])

\* heapq._siftup
RECURSIVE siftup_loop(_, _, _, _)
siftup_loop(heap, startpos, pos, newitem) ==
    LET childpos == 2 * pos + 1
        rightpos == childpos + 1
        smaller == IF rightpos < Len(heap) /\ ~ItemLess(heap[childpos + 1], heap[rightpos + 1])
                     THEN rightpos ELSE childpos
    IN  IF childpos < Len(heap)
          THEN siftup_loop([heap EXCEPT ![pos + 1] = heap[smaller + 1]], startpos, smaller, newitem)
          ELSE siftdown([heap EXCEPT ![pos + 1] = newitem], startpos, pos)

siftup(heap, pos) == siftup_loop(heap, pos, pos, heap[pos + 1])

heappush(heap, item) == siftdown(Append(heap, item), 0, Len(heap))

\* heapq.heappop: the item returned and the heap left
heappop(heap) ==
    LET lastelt == heap[Len(heap)]
        rest == SubSeq(heap, 1, Len(heap) - 1)
    IN  IF rest = <<>> THEN [item |-> lastelt, heap |-> <<>>]
        ELSE [item |-> rest[1], heap |-> siftup([rest EXCEPT ![1] = lastelt], 0)]

\* "-top_distance > new_distance" replaced by "not (new_distance > -top_distance)"
Nearer_mut(new_distance, top) == ~Greater(new_distance, top.d)

\* "if -top_distance > new_distance"
Nearer(new_distance, top) == Greater(top.d, new_distance)

\* one turn of the loop in which a full heap always gives its top away
Neighbor_mut(closest_neighbors, k, tweet, c, new_tweet) ==
    IF Len(closest_neighbors) < k
      THEN heappush(closest_neighbors, [d |-> jaccard_distance(tweet, new_tweet), c |-> c])
      ELSE heappush(heappop(closest_neighbors).heap,
                    [d |-> jaccard_distance(tweet, new_tweet), c |-> c])

\* one turn of the loop over the knowledge base
Neighbor(closest_neighbors, k, tweet, c, new_tweet) ==
    LET new_distance == jaccard_distance(tweet, new_tweet)
        popped == heappop(closest_neighbors)
    IN  IF Len(closest_neighbors) < k
          THEN heappush(closest_neighbors, [d |-> new_distance, c |-> c])
        ELSE IF Nearer(new_distance, popped.item)
          THEN heappush(popped.heap, [d |-> new_distance, c |-> c])
        ELSE heappush(popped.heap, popped.item)

\* the vote: the class counted most often, the first such in the order of
\* the heap's list; 0 when the heap is empty
Majority(closest_neighbors) ==
    LET frequency(c) == Cardinality({i \in 1..Len(closest_neighbors) : closest_neighbors[i].c = c})
        first(c) == CHOOSE i \in 1..Len(closest_neighbors) :
                       /\ closest_neighbors[i].c = c
                       /\ \A n \in 1..i - 1 : closest_neighbors[n].c # c
        classes == {closest_neighbors[i].c : i \in 1..Len(closest_neighbors)}
    IN  IF classes = {} THEN 0
        ELSE CHOOSE c \in classes :
               /\ \A other \in classes : frequency(other) <= frequency(c)
               /\ \A other \in classes : frequency(other) = frequency(c) => first(c) <= first(other)

MaxKB == 3

MaxK == 2

Tweets == {<<"a", " ", "b">>, <<"B", " ", " ", "a">>, <<"a">>, <<"c">>}

KnowledgeBases == UNION {[1..n -> [tweet : Tweets, c : {0, 4}]] : n \in 0..MaxKB}

KnnInit ==
    /\ \E kb \in KnowledgeBases, new_tweet \in Tweets, k \in 1..MaxK :
          call = [op |-> "predict_one", knowledge_base |-> kb, new_tweet |-> new_tweet, k |-> k]
    /\ ret = [op |-> "scan", n |-> 0, closest_neighbors |-> <<>>, result |-> 0]
    /\ NoJobs
    /\ NoRuns
    /\ dataset = NoDataset

\* the second loop of predict_one, one item of the knowledge base at a time
knn_neighbor ==
    /\ call.op = "predict_one"
    /\ ret.op = "scan"
    /\ ret.n < Len(call.knowledge_base)
    /\ ret' = [ret EXCEPT !.n = @ + 1,
                          !.closest_neighbors =
                              Neighbor(@, call.k, call.knowledge_base[ret.n + 1].tweet,
                                       call.knowledge_base[ret.n + 1].c, call.new_tweet)]
    /\ UNCHANGED <<call, jobVars, cleanVars>>

knn_vote ==
    /\ call.op = "predict_one"
    /\ ret.op = "scan"
    /\ ret.n = Len(call.knowledge_base)
    /\ ret' = [ret EXCEPT !.op = "predicted", !.result = Majority(ret.closest_neighbors)]
    /\ UNCHANGED <<call, jobVars, cleanVars>>

KnnNext == knn_neighbor \/ knn_vote

SpecKnn == KnnInit /\ [][KnnNext]_vars

\* the items of the knowledge base whose text is the query text
Duplicates == {n \in 1..Len(call.knowledge_base) : call.knowledge_base[n].tweet = call.new_tweet}

\* the items that have the words of the query, whatever their order and case
SameWords == {n \in 1..Len(call.knowledge_base) :
                 WordSet(call.knowledge_base[n].tweet) = WordSet(call.new_tweet)}

\* C10 as stated: predict_one with k = 1 on a knowledge base that holds an
\* exact duplicate of the query text returns the label stored with a
\* duplicate.
C10_DuplicateLabel ==
    (ret.op = "predicted" /\ call.k = 1 /\ Duplicates # {}) =>
       \E n \in Duplicates : ret.result = call.knowledge_base[n].c

\* C10 amended: predict_one with k = 1 on a knowledge base that holds an
\* exact duplicate of the query text returns the label of the first item of
\* the knowledge base that has the same set of lowercased words as the query.
C10_FirstSameWordsLabel ==
    (ret.op = "predicted" /\ call.k = 1 /\ Duplicates # {}) =>
       \E n \in SameWords :
          /\ \A m \in SameWords : n <= m
          /\ ret.result = call.knowledge_base[n].c

\* a prediction with k = 1 where the duplicate comes after an item of the
\* same words and another label
C10_Witness ==
    /\ ret.op = "predicted"
    /\ call.k = 1
    /\ Len(call.knowledge_base) = 3
    /\ \E n \in Duplicates : \E m \in SameWords \ Duplicates :
          /\ m < n
          /\ call.knowledge_base[m].c # call.knowledge_base[n].c
          /\ ret.result = call.knowledge_base[m].c

(***************************************************************************)
(* Text cleaning (_clean_text).  re.sub is modelled by the length of the   *)
(* match each pattern has at a position; the characters of the model are   *)
(* letters, digits, white space and the punctuation below.                 *)
(***************************************************************************)
PunctChars == {"#", "@", ":", ";", ")", "(", "<", ">", ".", "/", "-", "%", "+", "^"}

IsLetter(ch) == ch \notin DigitChars \cup SpaceChars \cup PunctChars \cup SuperscriptChars \cup {"_"}

\* the character classes of the patterns
InClass(class, ch) ==
    CASE class = "\\w" -> ch \notin SpaceChars \cup PunctChars
      [] class = "\\s" -> ch \in SpaceChars
      [] class = "\\S" -> ch \notin SpaceChars
      [] class = "[^>]" -> ch # ">"
      [] class = "[A-Za-z]" -> IsLetter(ch)
      [] class = "[A-Za-z0-9._%+-]" -> IsLetter(ch) \/ ch \in DigitChars \cup {".", "_", "%", "+", "-"}
      [] OTHER -> IsLetter(ch) \/ ch \in DigitChars \cup {".", "-"}

\* how many characters from position i on are of the class
RunLen(class, text, i) ==
    Cardinality({k \in i..Len(text) : \A n \in i..k : InClass(class, text[n])})

\* str.startswith at position i
StartsAt(text, i, prefix) ==
    i + Len(prefix) - 1 <= Len(text) /\ SubSeq(text, i, i + Len(prefix) - 1) = prefix

\* the greatest of a set of numbers
Greatest(S) == CHOOSE m \in S : \A n \in S : n <= m

\* [A-Za-z0-9._%+-]+@[A-Za-z0-9.-]+\.[A-Za-z]{2,} at position i: the local
\* part ends at the "@", the domain at the last "." that two letters or more
\* follow, and the match ends with the letters after that "."
EmailLen(text, i) ==
    Greatest({0} \cup
             {q + RunLen("[A-Za-z]", text, q + 1) - i + 1 :
                q \in {q \in i + 3..Len(text) :
                         /\ text[q] = "."
                         /\ RunLen("[A-Za-z]", text, q + 1) >= 2
                         /\ \E at \in i + 1..q - 2 :
                               /\ text[at] = "@"
                               /\ \A n \in i..at - 1 : InClass("[A-Za-z0-9._%+-]", text[n])
                               /\ \A n \in at + 1..q - 1 : InClass("[A-Za-z0-9.-]", text[n])}})

\* the literal starts of https?://\S+|www\.[^\s]+
UrlStarts ==
    {<<"h", "t", "t", "p", "s", ":", "/", "/">>, <<"h", "t", "t", "p", ":", "/", "/">>,
     <<"w", "w", "w", ".">>}

\* https?://\S+|www\.[^\s]+ at position i: no two of the starts match at
\* one position
UrlLen(text, i) ==
    Greatest({0} \cup
             {Len(start) + RunLen("\\S", text, i + Len(start)) :
                start \in {start \in UrlStarts :
                             /\ StartsAt(text, i, start)
                             /\ RunLen("\\S", text, i + Len(start)) >= 1}})

\* the length of the match of a pattern at position i, 0 for none
MatchLen(pattern, text, i) ==
    CASE pattern = "email" -> EmailLen(text, i)
      [] pattern = "@\\w+" ->
           IF text[i] = "@" /\ RunLen("\\w", text, i + 1) >= 1
             THEN 1 + RunLen("\\w", text, i + 1) ELSE 0
      [] pattern = "<[^>]+>" ->
           IF text[i] = "<" /\ RunLen("[^>]", text, i + 1) >= 1
                 /\ i + RunLen("[^>]", text, i + 1) < Len(text)
             THEN RunLen("[^>]", text, i + 1) + 2 ELSE 0
      [] pattern = "[^\\w\\s]" ->
           IF InClass("\\w", text[i]) \/ InClass("\\s", text[i]) THEN 0 ELSE 1
      [] pattern = "\\s+" -> RunLen("\\s", text, i)
      [] OTHER -> UrlLen(text, i)

\* re.sub(pattern, repl, text): the matches from the left, none overlapping
RECURSIVE re_sub_from(_, _, _, _)
re_sub_from(pattern, repl, text, i) ==
    IF i > Len(text) THEN <<>>
    ELSE IF MatchLen(pattern, text, i) > 0
      THEN repl \o re_sub_from(pattern, repl, text, i + MatchLen(pattern, text, i))
    ELSE <<text[i]>> \o re_sub_from(pattern, repl, text, i + 1)

re_sub(pattern, repl, text) == re_sub_from(pattern, repl, text, 1)

\* the markers written in punctuation; the others are single emoji
\* characters, which no text of the model holds
positive_markers ==
    {<<":", ")">>, <<":", "-", ")">>, <<";", ")">>, <<";", "-", ")">>, <<"<", "3">>, <<"^", "^">>}

negative_markers ==
    {<<":", "(">>, <<":", "-", "(">>, <<";", "(">>, <<";", "-", "(">>}

IsRetweet(text) ==
    \/ StartsAt(text, 1, <<"R", "T", " ">>)
    \/ StartsAt(text, 1, <<"R", "T", "@">>)
    \/ StartsAt(text, 1, <<"R", "T", " ", "@">>)

\* steps 2 to 4 and 6, 8 and 9 of _clean_text, each under its flag
Rewrite2(text, options) ==
    IF options.remove_hashtags THEN SelectSeq(text, LAMBDA ch : ch # "#") ELSE text

Rewrite3(text, options) ==
    IF options.remove_mentions
      THEN re_sub("@\\w+", <<" ">>, re_sub("email", <<" ">>, text))
      ELSE text

Rewrite4(text, options) ==
    IF options.remove_html_tags THEN re_sub("<[^>]+>", <<" ">>, text) ELSE text

Rewrite6(text, options) ==
    IF options.remove_numbers THEN re_sub("[^\\w\\s]", <<" ">>, text) ELSE text

Rewrite8(text, options) ==
    IF options.remove_extra_spaces THEN strip(re_sub("\\s+", <<" ">>, text)) ELSE text

Rewrite9(text, options) ==
    IF options.remove_urls THEN strip(re_sub("url", <<>>, text)) ELSE text

Contradictory(text) ==
    /\ \E marker \in positive_markers : Contains(text, marker)
    /\ \E marker \in negative_markers : Contains(text, marker)

\* the end of _clean_text: a text that the steps emptied is counted
CleanedText(text, metrics) ==
    IF text = <<>>
      THEN [text |-> <<>>, metrics |-> Incr(metrics, "empty_after_cleaning", 1)]
      ELSE [text |-> text, metrics |-> metrics]

\* _clean_text from step 5 on, on the text that steps 2 to 4 leave
AfterHtmlTags(text, options, metrics) ==
    IF options.remove_contradictory_emojis /\ Contradictory(text)
      THEN [text |-> <<>>, metrics |-> Incr(metrics, "positive_and_negative", 1)]
      ELSE CleanedText(Rewrite9(Rewrite8(Rewrite6(text, options), options), options), metrics)

\* _clean_text on a cell of a text column, with the metrics accumulator
\* passed through; the language filter (step 7) is off in every run here
clean_text(cell, options, metrics) ==
    IF isna(cell) \/ cell = <<>>
      THEN [text |-> <<>>, metrics |-> Incr(metrics, "Absent_text", 1)]
    ELSE IF options.remove_retweets /\ IsRetweet(cell)
      THEN [text |-> <<>>, metrics |-> Incr(metrics, "Retweet", 1)]
    ELSE AfterHtmlTags(Rewrite4(Rewrite3(Rewrite2(cell, options), options), options),
                       options, metrics)

(***************************************************************************)
(* The other stages of the cleaning pipeline, each with the metrics        *)
(* accumulator passed through.                                             *)
(***************************************************************************)
\* the index a stage other than validation gives a column spec, -1 for none:
\* text cleaning looks an index out of range up as a name, missing-value
\* handling drops it
SpecIndex(col_spec, df, column_mapping, by_name_if_out_of_range) ==
    IF IsDecimal(col_spec) /\ int(col_spec) < NCols(df) THEN int(col_spec)
    ELSE IF IsDecimal(col_spec) /\ ~by_name_if_out_of_range THEN -1
    ELSE IF \E idx \in DOMAIN column_mapping : column_mapping[idx] = col_spec
      THEN CHOOSE idx \in DOMAIN column_mapping : column_mapping[idx] = col_spec
    ELSE -1

\* the list of column indices of a list of column specs
RECURSIVE SpecIndices(_, _, _, _)
SpecIndices(col_specs, df, column_mapping, by_name_if_out_of_range) ==
    IF col_specs = <<>> THEN <<>>
    ELSE LET idx == SpecIndex(Head(col_specs), df, column_mapping, by_name_if_out_of_range)
         IN  (IF idx = -1 THEN <<>> ELSE <<idx>>)
             \o SpecIndices(Tail(col_specs), df, column_mapping, by_name_if_out_of_range)

\* the cleaned text put in row n of the column, its metrics the new metrics
PutCleaned(df, n, col_idx, cleaned) ==
    [df |-> SetCell(df, n - 1, col_idx, cleaned.text), metrics |-> cleaned.metrics]

\* the lambda at row n of the column
CleanCell(acc, n, col_idx, options) ==
    PutCleaned(acc.df, n, col_idx, clean_text(acc.df[n][col_idx + 1], options, acc.metrics))

\* "df.iloc[:, col_idx].apply(lambda x: _clean_text(x, options))": the
\* first n cells of the column cleaned, acc the table and the metrics
RECURSIVE CleanCells(_, _, _, _)
CleanCells(acc, col_idx, options, n) ==
    IF n = 0 THEN acc
    ELSE CleanCell(CleanCells(acc, col_idx, options, n - 1), n, col_idx, options)

\* the loop over the text columns
RECURSIVE CleanColumns(_, _, _)
CleanColumns(acc, indices, options) ==
    IF indices = <<>> THEN acc
    ELSE CleanColumns(CleanCells(acc, Head(indices), options, Len(acc.df)),
                      Tail(indices), options)

\* "lambda row: any(str(val).strip() != "" for val in row)" on the text columns
TextMask(df, indices) ==
    [i \in 1..Len(df) |->
        \E k \in 1..Len(indices) : strip(astype_str(df[i][indices[k] + 1])) # <<>>]

\* the rows with a text left stay
KeepText(cleaned, indices) ==
    IF indices = <<>> THEN cleaned
    ELSE [df |-> Select(cleaned.df, TextMask(cleaned.df, indices)),
          metrics |-> IncrIfAny(cleaned.metrics, "rows_removed_empty_text",
                                Len(cleaned.df) - CountTrue(TextMask(cleaned.df, indices)))]

\* _apply_text_cleaning
apply_text_cleaning(df, options, column_mapping, metrics) ==
    KeepText(CleanColumns([df |-> df, metrics |-> metrics],
                          SpecIndices(options.text_columns, df, column_mapping, TRUE), options),
             SpecIndices(options.text_columns, df, column_mapping, TRUE))

\* _apply_remove_duplicates: of equal rows the first stays
apply_remove_duplicates(df, metrics) ==
    LET mask == [i \in 1..Len(df) |-> \A k \in 1..i - 1 : df[k] # df[i]]
    IN  [df |-> Select(df, mask),
         metrics |-> IncrIfAny(metrics, "duplicate_rows", Len(df) - CountTrue(mask))]

\* the strategies of the runs modelled
Strategies == {"drop_rows", "fill_constant"}

\* one MissingValueOption
ApplyMissing(df, opt, column_mapping, metrics) ==
    LET col_indices == IF opt.columns # <<>>
                         THEN SpecIndices(opt.columns, df, column_mapping, FALSE)
                         ELSE [c \in 1..NCols(df) |-> c - 1]
        cols == {col_indices[k] : k \in 1..Len(col_indices)}
        mask == [i \in 1..Len(df) |-> \A c \in cols : ~isna(df[i][c + 1])]
    IN  IF col_indices = <<>> THEN [df |-> df, metrics |-> metrics]
        ELSE IF opt.strategy = "drop_rows"
          THEN [df |-> Select(df, mask),
                metrics |-> IncrIfAny(metrics, "rows_dropped_missing", Len(df) - CountTrue(mask))]
        ELSE [df |-> [i \in 1..Len(df) |-> [c \in 1..Len(df[i]) |->
                         IF c - 1 \in cols /\ isna(df[i][c]) THEN opt.constant_value ELSE df[i][c]]],
              metrics |-> metrics]

\* _apply_missing_value_options
RECURSIVE apply_missing_value_options(_, _, _, _)
apply_missing_value_options(df, options, column_mapping, metrics) ==
    IF options = <<>> THEN [df |-> df, metrics |-> metrics]
    ELSE LET first == ApplyMissing(df, Head(options), column_mapping, metrics)
         IN  apply_missing_value_options(first.df, Tail(options), column_mapping, first.metrics)

\* sorted(indices)
RECURSIVE Sorted(_)
Sorted(indices) ==
    IF indices = {} THEN <<>>
    ELSE LET least == CHOOSE i \in indices : \A k \in indices : i <= k
         IN  <<least>> \o Sorted(indices \ {least})

\* _apply_keep_columns: the columns of the mapping that exist, in order
apply_keep_columns(df, column_mapping) ==
    LET indices_to_keep == Sorted({idx \in DOMAIN column_mapping : 0 <= idx /\ idx < NCols(df)})
    IN  IF indices_to_keep = <<>> THEN df
        ELSE [i \in 1..Len(df) |-> [k \in 1..Len(indices_to_keep) |-> df[i][indices_to_keep[k] + 1]]]

\* the last item of keep_columns that names the index
NameOf(keep_columns, idx, items) ==
    keep_columns[CHOOSE k \in items : keep_columns[k].index = idx
                                       /\ \A n \in items : keep_columns[n].index = idx => n <= k].name

\* temp_column_mapping: every item of keep_columns
temp_column_mapping(keep_columns) ==
    [idx \in {keep_columns[k].index : k \in 1..Len(keep_columns)} |->
        NameOf(keep_columns, idx, 1..Len(keep_columns))]

\* column_mapping: the items with an index from 0 on and a name
column_mapping_of(keep_columns) ==
    LET items == {k \in 1..Len(keep_columns) :
                     keep_columns[k].index >= 0 /\ keep_columns[k].name # <<>>}
    IN  [idx \in {keep_columns[k].index : k \in items} |-> NameOf(keep_columns, idx, items)]

(***************************************************************************)
(* run_cleaning_job between the download and the upload: the reset of the  *)
(* global accumulator, the parse, the five stages in the order of the      *)
(* code, the final counts, and the metrics handed to mark_job_completed.   *)
(* Runs are background tasks of one process, run on a pool of threads, so  *)
(* the steps of two runs interleave.                                       *)
(***************************************************************************)
CleanStages_mut ==
    <<"column_validations", "remove_duplicates", "text_cleaning",
      "keep_columns", "missing_value_options">>

\* the stages in the order of the code
CleanStages ==
    <<"column_validations", "remove_duplicates", "text_cleaning",
      "missing_value_options", "keep_columns">>

\* the "if" in front of each stage
Configured(stage, options) ==
    CASE stage = "column_validations" -> options.column_validations # <<>>
      [] stage = "remove_duplicates" -> options.remove_duplicates
      [] stage = "text_cleaning" -> options.text_cleaning # <<>>
      [] stage = "missing_value_options" -> options.missing_value_options # <<>>
      [] OTHER -> DOMAIN column_mapping_of(options.keep_columns) # {}

\* the call of each stage
ApplyStage(stage, df, options, metrics) ==
    CASE stage = "column_validations" ->
           apply_column_validations(df, options.column_validations,
                                    temp_column_mapping(options.keep_columns), metrics)
      [] stage = "remove_duplicates" -> apply_remove_duplicates(df, metrics)
      [] stage = "text_cleaning" ->
           apply_text_cleaning(df, options.text_cleaning[1],
                               column_mapping_of(options.keep_columns), metrics)
      [] stage = "missing_value_options" ->
           apply_missing_value_options(df, options.missing_value_options,
                                       column_mapping_of(options.keep_columns), metrics)
      [] OTHER ->
           [df |-> apply_keep_columns(df, column_mapping_of(options.keep_columns)),
            metrics |-> metrics]

\* the column labels read_csv(header=None) gives n columns
RangeIndex(n) == [c \in 1..n |-> str(c - 1)]

\* "df_selected.columns = new_column_names" in _apply_keep_columns: the
\* names of the columns kept; the other stages leave the labels
ColumnsAfter(stage, columns, column_mapping) ==
    IF stage = "keep_columns"
         /\ \E idx \in DOMAIN column_mapping : 0 <= idx /\ idx < Len(columns)
      THEN [k \in 1..Cardinality({idx \in DOMAIN column_mapping : 0 <= idx /\ idx < Len(columns)}) |->
              column_mapping[Sorted({idx \in DOMAIN column_mapping :
                                        0 <= idx /\ idx < Len(columns)})[k]]]
      ELSE columns

\* a cell as to_csv writes it: nothing for a missing value
CsvField(cell) == IF isna(cell) THEN <<>> ELSE cell

\* df.to_csv(csv_buffer, index=False): the line of the column labels, then
\* one line for each row
to_csv(df, columns) ==
    <<columns>> \o [i \in 1..Len(df) |-> [c \in 1..Len(df[i]) |-> CsvField(df[i][c])]]

\* "global cleaning_metrics; cleaning_metrics = defaultdict(int)"
reset_metrics(r) ==
    /\ run[r].at = "reset"
    /\ cleaning_metrics' = EmptyMetrics
    /\ run' = [run EXCEPT ![r].at = "parse"]

\* read_csv and "cleaning_metrics["initial_rows"] = initial_row_count"; a
\* file without a record does not parse and the run fails
parse_csv(r) ==
    /\ run[r].at = "parse"
    /\ IF run[r].raw = <<>>
         THEN /\ run' = [run EXCEPT ![r].at = "failed"]
              /\ UNCHANGED cleaning_metrics
         ELSE /\ run' = [run EXCEPT ![r].at = "stage", ![r].stage = 1,
                                    ![r].df = read_csv(run[r].raw),
                                    ![r].columns = RangeIndex(Len(run[r].raw[1])),
                                    ![r].initial_row_count = Len(run[r].raw)]
              /\ cleaning_metrics' = Put(cleaning_metrics, "initial_rows", Len(run[r].raw))

AfterStage(r) ==
    IF run[r].stage = Len(CleanStages) THEN [at |-> "final", stage |-> 0]
    ELSE [at |-> "stage", stage |-> run[r].stage + 1]

\* a stage that is configured runs
run_stage(r) ==
    /\ run[r].at = "stage"
    /\ Configured(CleanStages[run[r].stage], run[r].options)
    /\ LET stage == CleanStages[run[r].stage]
           out == ApplyStage(stage, run[r].df, run[r].options, cleaning_metrics)
       IN  /\ run' = [run EXCEPT ![r].at = AfterStage(r).at, ![r].stage = AfterStage(r).stage,
                                 ![r].df = out.df, ![r].done = Append(@, stage),
                                 ![r].columns =
                                     ColumnsAfter(stage, @, column_mapping_of(run[r].options.keep_columns))]
           /\ cleaning_metrics' = out.metrics

\* a stage that is not configured is passed over
skip_stage(r) ==
    /\ run[r].at = "stage"
    /\ ~Configured(CleanStages[run[r].stage], run[r].options)
    /\ run' = [run EXCEPT ![r].at = AfterStage(r).at, ![r].stage = AfterStage(r).stage]
    /\ UNCHANGED cleaning_metrics

\* final_rows and rows_removed
final_metrics(r) ==
    /\ run[r].at = "final"
    /\ cleaning_metrics' =
          Put(Put(cleaning_metrics, "final_rows", Len(run[r].df)),
              "rows_removed", run[r].initial_row_count - Len(run[r].df))
    /\ run' = [run EXCEPT ![r].at = "serialize"]

\* to_csv and the upload to cleaned/<dataset_id>_cleaned.csv
upload_cleaned(r) ==
    /\ run[r].at = "serialize"
    /\ run' = [run EXCEPT ![r].at = "persist",
                          ![r].cleaned_file = to_csv(run[r].df, run[r].columns)]
    /\ UNCHANGED cleaning_metrics

\* metrics_dict, read from the global, goes to mark_job_completed
persist_metrics(r) ==
    /\ run[r].at = "persist"
    /\ run' = [run EXCEPT ![r].at = "done", ![r].metrics = cleaning_metrics]
    /\ UNCHANGED cleaning_metrics

CleanStep(r) ==
    /\ \/ reset_metrics(r)
       \/ parse_csv(r)
       \/ run_stage(r)
       \/ skip_stage(r)
       \/ final_metrics(r)
       \/ upload_cleaned(r)
       \/ persist_metrics(r)
    /\ UNCHANGED <<jobVars, callVars>>

CleanNext == \E r \in Runs : CleanStep(r)

\* the requests of the runs
CleanFields0 == {<<>>, <<"4">>, <<"7">>}

CleanFields1 == {<<>>, <<"R", "T", " ", "a">>, <<"a", " ", " ", "#", "b">>}

CleanTables == UNION {[1..n -> {<<a, b>> : a \in CleanFields0, b \in CleanFields1}] : n \in 0..MaxRows}

\* TextCleaningOptions with its defaults, on column 1
TextDefaults ==
    [text_columns |-> <<<<"1">>>>, remove_urls |-> TRUE, remove_retweets |-> TRUE,
     remove_hashtags |-> TRUE, remove_mentions |-> TRUE, remove_numbers |-> TRUE,
     remove_html_tags |-> TRUE, remove_extra_spaces |-> TRUE,
     remove_contradictory_emojis |-> TRUE]

MissingValueOption(strategy, constant_value, columns) ==
    [strategy |-> strategy, constant_value |-> constant_value, columns |-> columns]

CleaningOptions ==
    [column_validations :
        {<<>>, <<Rule(<<"0">>, "polarity", {0, 2, 4}, 0), Rule(<<"t", "e", "x", "t">>, "not_empty", {}, 0)>>},
     remove_duplicates : BOOLEAN,
     text_cleaning : {<<>>, <<TextDefaults>>},
     missing_value_options :
        {<<>>, <<MissingValueOption("drop_rows", <<>>, <<>>)>>,
         <<MissingValueOption("fill_constant", <<"x">>, <<<<"0">>>>)>>},
     keep_columns : {<<>>, <<[index |-> 1, name |-> <<"t", "e", "x", "t">>]>>}]

StartRun(raw, options) == [NoRun EXCEPT !.at = "reset", !.raw = raw, !.options = options]

\* one run, every table and every combination of stages
PipelineInit ==
    /\ \E raw \in CleanTables, options \in CleaningOptions :
          run = [r \in Runs |-> IF r = 1 THEN StartRun(raw, options) ELSE NoRun]
    /\ cleaning_metrics \in {EmptyMetrics, Put(EmptyMetrics, "duplicate_rows", 1)}
    /\ NoJobs
    /\ dataset = NoDataset
    /\ call = Idle
    /\ ret = Idle

SpecPipeline == PipelineInit /\ [][CleanNext]_vars

\* the requests of two runs at once
ConcurrentTables ==
    {<<<<<<"4">>, <<"a", " ", " ", "#", "b">>>>, <<<<>>, <<"R", "T", " ", "a">>>>>>,
     <<<<<<"7">>, <<>>>>>>}

ConcurrentOptions ==
    {options \in CleaningOptions :
        /\ options.remove_duplicates = (options.text_cleaning # <<>>)
        /\ (options.column_validations # <<>>) = (options.keep_columns # <<>>)
        /\ options.missing_value_options \in {<<>>, <<MissingValueOption("drop_rows", <<>>, <<>>)>>}
        /\ (options.missing_value_options # <<>>) = (options.text_cleaning # <<>>)}

CleanInit ==
    /\ run \in [Runs -> {StartRun(raw, options) : raw \in ConcurrentTables, options \in ConcurrentOptions}]
    /\ cleaning_metrics = EmptyMetrics
    /\ NoJobs
    /\ dataset = NoDataset
    /\ call = Idle
    /\ ret = Idle

SpecClean == CleanInit /\ [][CleanNext]_vars

(***************************************************************************)
(* Claims about the cleaning run.                                          *)
(***************************************************************************)
\* the stages from the k-th on, run without another run in between
RECURSIVE StagesFrom(_, _, _, _)
StagesFrom(k, df, options, metrics) ==
    IF k > Len(CleanStages) THEN [df |-> df, metrics |-> metrics]
    ELSE IF Configured(CleanStages[k], options)
      THEN LET out == ApplyStage(CleanStages[k], df, options, metrics)
           IN  StagesFrom(k + 1, out.df, options, out.metrics)
    ELSE StagesFrom(k + 1, df, options, metrics)

\* the metrics a run persists when it runs alone
MetricsAlone(raw, options) ==
    LET out == StagesFrom(1, read_csv(raw), options, Put(EmptyMetrics, "initial_rows", Len(raw)))
    IN  Put(Put(out.metrics, "final_rows", Len(out.df)), "rows_removed", Len(raw) - Len(out.df))

SameMetrics(m1, m2) == DOMAIN m1 = DOMAIN m2 /\ \A key \in DOMAIN m1 : m1[key] = m2[key]

\* C2: when two cleaning jobs run concurrently in one process, the metrics
\* each job persists on completion equal the metrics that job persists when
\* it runs alone on the same input and options.
C2_MetricsAsAlone ==
    \A r \in Runs :
       run[r].at = "done" => SameMetrics(run[r].metrics, MetricsAlone(run[r].raw, run[r].options))

\* the place of a stage in the order the specification gives
StageRank(stage) ==
    CASE stage = "column_validations" -> 1
      [] stage = "remove_duplicates" -> 2
      [] stage = "text_cleaning" -> 3
      [] stage = "missing_value_options" -> 4
      [] OTHER -> 5

StageNames ==
    {"column_validations", "remove_duplicates", "text_cleaning", "missing_value_options", "keep_columns"}

\* C6: in every cleaning run the configured stages execute in the order
\* column validation, duplicate removal, text normalization, missing-value
\* handling, column projection, each at most once; a stage without
\* configuration is skipped and leaves the table unchanged, and projection
\* sees the table only after all other configured stages have run.
C6_StageOrder ==
    [][\A r \in Runs :
          /\ run'[r].done # run[r].done =>
                \E stage \in StageNames :
                   /\ run'[r].done = Append(run[r].done, stage)
                   /\ Configured(stage, run[r].options)
                   /\ \A k \in 1..Len(run[r].done) : StageRank(run[r].done[k]) < StageRank(stage)
                   /\ stage = "keep_columns" =>
                         \A other \in StageNames \ {stage} :
                            Configured(other, run[r].options) =>
                               \E k \in 1..Len(run[r].done) : run[r].done[k] = other
          /\ (run[r].at = "stage" /\ run'[r].done = run[r].done) => run'[r].df = run[r].df
          /\ run'[r].at = "final" =>
                \A stage \in StageNames :
                   Configured(stage, run[r].options) <=>
                      \E k \in 1..Len(run'[r].done) : run'[r].done[k] = stage]_vars

\* a run that went through all five stages, the validation having removed a row
C6_Witness ==
    /\ run[1].at = "final"
    /\ run[1].done = <<"column_validations", "remove_duplicates", "text_cleaning",
                       "missing_value_options", "keep_columns">>
    /\ Len(run[1].df) = 1
    /\ run[1].initial_row_count = 2

(***************************************************************************)
(* CustomNaiveBayes (train_service.py).  np.log is strictly increasing, so *)
(* a score, a sum of logarithms, is kept as the product of the fractions   *)
(* whose logarithms the code adds: num/den stands for log(num/den), and    *)
(* two scores compare as their products do.                                *)
(***************************************************************************)
\* the positions of "for i in range(n)", counted from 1
Positions(n) == 1..(IF n > 0 THEN n ELSE 0)

\* the bigrams and trigrams appended to the words
Ngrams(words, ngram) ==
    words
    \o (IF ngram \in {"bigram", "trigram"}
          THEN [i \in Positions(Len(words) - 1) |-> words[i] \o <<"_">> \o words[i + 1]]
          ELSE <<>>)
    \o (IF ngram = "trigram"
          THEN [i \in Positions(Len(words) - 2) |->
                   words[i] \o <<"_">> \o words[i + 1] \o <<"_">> \o words[i + 2]]
          ELSE <<>>)

\* CustomNaiveBayes._tokenize
tokenize(text, ngram) == Ngrams(split(lower(text)), ngram)

\* the tokens at their first positions
FirstOnes(tokens) ==
    SelectSeq([i \in 1..Len(tokens) |-> [at |-> i, token |-> tokens[i]]],
              LAMBDA item : \A k \in 1..item.at - 1 : tokens[k] # item.token)

\* list(set(tokens)): each token once
Unique(first_ones) == [i \in 1..Len(first_ones) |-> first_ones[i].token]

\* the tokens of a text that fit counts and predict_one scores
FeatureTokens(text, ngram, feature_rep) ==
    IF feature_rep = "binary"
      THEN Unique(FirstOnes(tokenize(text, ngram)))
      ELSE tokenize(text, ngram)

\* how often a list holds a token
Occurrences(tokens, word) == Cardinality({k \in 1..Len(tokens) : tokens[k] = word})

\* the set of the tokens of a list
TokenSet(tokens) == {tokens[k] : k \in 1..Len(tokens)}

\* the sum of the first n values of a list of numbers
RECURSIVE SumTo(_, _)
SumTo(numbers, n) == IF n = 0 THEN 0 ELSE numbers[n] + SumTo(numbers, n - 1)

\* self.vocabulary after fit
Vocabulary(X_train, ngram) ==
    UNION {TokenSet(tokenize(X_train[i], ngram)) : i \in 1..Len(X_train)}

\* word_counts[c][word]
WordCount(X_train, y_train, ngram, feature_rep, c, word) ==
    SumTo([i \in 1..Len(X_train) |->
             IF y_train[i] = c
               THEN Occurrences(FeatureTokens(X_train[i], ngram, feature_rep), word)
               ELSE 0],
          Len(X_train))

\* total_words[c]
TotalWords(X_train, y_train, ngram, feature_rep, c) ==
    SumTo([i \in 1..Len(X_train) |->
             IF y_train[i] = c THEN Len(FeatureTokens(X_train[i], ngram, feature_rep)) ELSE 0],
          Len(X_train))

\* class_counts[c]
ClassCount(y_train, c) == Cardinality({i \in 1..Len(y_train) : y_train[i] = c})

\* "numer = word_counts[c][word] + 1" without the count
Numer_mut(word_count) == 1

\* "numer = word_counts[c][word] + 1"
Numer(word_count) == word_count + 1

\* "self.Pxy[c][word] = np.log(numer / denom)" for the words of the vocabulary
WordLikelihoods(X_train, y_train, ngram, feature_rep, c, vocabulary, denom) ==
    [word \in vocabulary |->
        [num |-> Numer(WordCount(X_train, y_train, ngram, feature_rep, c, word)),
         den |-> denom]]

\* the two loops over the classes, the vocabulary built
Fitted(X_train, y_train, ngram, feature_rep, vocabulary) ==
    [class_prior |->
        [c \in {y_train[i] : i \in 1..Len(y_train)} |->
            [num |-> ClassCount(y_train, c), den |-> Len(y_train)]],
     Pxy |->
        [c \in {y_train[i] : i \in 1..Len(y_train)} |->
            WordLikelihoods(X_train, y_train, ngram, feature_rep, c, vocabulary,
                            TotalWords(X_train, y_train, ngram, feature_rep, c)
                            + Cardinality(vocabulary))]]

\* CustomNaiveBayes.__init__: no class, no word
NewBayes == [class_prior |-> <<>>, Pxy |-> <<>>, vocabulary |-> {}]

\* "self.class_prior[c] = ..." and "self.Pxy[c] = {}" for the classes of this
\* fit: the entries of the other classes stay as they were
Assigned(before, fitted) ==
    [c \in DOMAIN before \cup DOMAIN fitted |-> IF c \in DOMAIN fitted THEN fitted[c] ELSE before[c]]

\* the instance after the loops of fit, the vocabulary built
FitInto(self, fitted, vocabulary) ==
    [class_prior |-> Assigned(self.class_prior, fitted.class_prior),
     Pxy |-> Assigned(self.Pxy, fitted.Pxy),
     vocabulary |-> vocabulary]

\* CustomNaiveBayes.fit on an instance: "self.vocabulary.add(word)" adds to
\* the vocabulary the instance has; class_prior and Pxy hold, for each
\* value, the fraction under the logarithm
fit(self, X_train, y_train, ngram, feature_rep) ==
    FitInto(self,
            Fitted(X_train, y_train, ngram, feature_rep,
                   self.vocabulary \cup Vocabulary(X_train, ngram)),
            self.vocabulary \cup Vocabulary(X_train, ngram))

\* "log_prob += self.Pxy[c][word]" over the first n tokens, from the prior on
RECURSIVE LogProb(_, _, _, _)
LogProb(model, c, tokens, n) ==
    IF n = 0 THEN model.class_prior[c]
    ELSE IF tokens[n] \in DOMAIN model.Pxy[c]
      THEN [num |-> LogProb(model, c, tokens, n - 1).num * model.Pxy[c][tokens[n]].num,
            den |-> LogProb(model, c, tokens, n - 1).den * model.Pxy[c][tokens[n]].den]
    ELSE LogProb(model, c, tokens, n - 1)

\* the classes "max(scores, key=scores.get)" can return: a class of the
\* greatest score.  Scores that are equal as products are sums of different
\* floating-point terms, which round to either order, so each of the classes
\* of the greatest product is a possible result
BestClasses(model, tokens) ==
    {c \in DOMAIN model.class_prior :
        \A other \in DOMAIN model.class_prior :
           ~Greater(LogProb(model, other, tokens, Len(tokens)),
                    LogProb(model, c, tokens, Len(tokens)))}

MaxDocs == 3

\* texts of the words a and b, of the words x and y, and of both
DocsA == {<<"a">>, <<"a", " ", "b">>, <<"b", " ", "a", " ", "b">>}

DocsB == {<<"x">>, <<"x", " ", "y">>}

TrainingDocs ==
    [text : DocsA, c : {0}] \cup [text : DocsB, c : {4}] \cup [text : {<<"A", " ", "x">>}, c : {4}]

TrainingSets == UNION {[1..n -> TrainingDocs] : n \in 1..MaxDocs}

QueryTexts == {<<>>, <<"a">>, <<"B", " ", "a">>, <<"x">>}

BayesInit ==
    /\ \E training \in TrainingSets, text \in QueryTexts,
          ngram \in {"unigram", "bigram", "trigram"}, feature_rep \in {"count", "binary"} :
          call = [op |-> "CustomNaiveBayes", ngram |-> ngram, feature_rep |-> feature_rep,
                  X_train |-> [i \in 1..Len(training) |-> training[i].text],
                  y_train |-> [i \in 1..Len(training) |-> training[i].c],
                  text |-> text]
    /\ ret = [op |-> "new", model |-> NewBayes, result |-> 0]
    /\ NoJobs
    /\ NoRuns
    /\ dataset = NoDataset

nb_fit ==
    /\ call.op = "CustomNaiveBayes"
    /\ ret.op = "new"
    /\ ret' = [ret EXCEPT !.op = "fitted",
                          !.model = fit(@, call.X_train, call.y_train, call.ngram, call.feature_rep)]
    /\ UNCHANGED <<call, jobVars, cleanVars>>

nb_predict_one ==
    /\ call.op = "CustomNaiveBayes"
    /\ ret.op = "fitted"
    /\ \E c \in BestClasses(ret.model, FeatureTokens(call.text, call.ngram, call.feature_rep)) :
          ret' = [ret EXCEPT !.op = "predicted", !.result = c]
    /\ UNCHANGED <<call, jobVars, cleanVars>>

BayesNext == nb_fit \/ nb_predict_one

SpecBayes == BayesInit /\ [][BayesNext]_vars

\* the words of the training texts of a class
ClassWords(c) ==
    UNION {WordSet(call.X_train[i]) : i \in {i \in 1..Len(call.X_train) : call.y_train[i] = c}}

\* two classes of disjoint vocabularies, and a text of words of class 0 only
Separated ==
    /\ {call.y_train[i] : i \in 1..Len(call.y_train)} = {0, 4}
    /\ ClassWords(0) \cap ClassWords(4) = {}
    /\ WordSet(call.text) # {}
    /\ WordSet(call.text) \subseteq ClassWords(0)

\* the two classes have as many training texts and as many counted tokens
Balanced ==
    /\ ClassCount(call.y_train, 0) = ClassCount(call.y_train, 4)
    /\ TotalWords(call.X_train, call.y_train, call.ngram, call.feature_rep, 0)
       = TotalWords(call.X_train, call.y_train, call.ngram, call.feature_rep, 4)

load_df_from_storage(lines) == read_csv(lines)

\* a labeling job loads the cleaned file of a run
load_cleaned_file(r) ==
    /\ run[r].cleaned_file # <<>>
    /\ ret = Idle
    /\ ret' = [op |-> "loaded", r |-> r, df |-> load_df_from_storage(run[r].cleaned_file)]
    /\ UNCHANGED <<call, jobVars, cleanVars>>

CleanedFileNext == CleanNext \/ \E r \in Runs : load_cleaned_file(r)

SpecCleanedFile == PipelineInit /\ [][CleanedFileNext]_vars

\* C12: the table a labeling job loads from the cleaned file has exactly the
\* rows the cleaning job produced, final_rows of them in the same order.
C12_LoadedRowsAreCleanedRows ==
    ret.op = "loaded" =>
       /\ Len(ret.df) = Len(run[ret.r].df)
       /\ \A i \in 1..Len(ret.df) :
             [c \in 1..Len(ret.df[i]) |-> CsvField(ret.df[i][c])] = run[ret.r].cleaned_file[i + 1]

(***************************************************************************)
(* _map_clusters_to_labels on arrays of cluster ids.                       *)
(***************************************************************************)
MaxIds == 5

\* the ids a clustering gives: noise, another negative id, clusters 0 to 3
MappedIds == -2..3

ClusterMapInit ==
    /\ \E cluster_labels \in UNION {[1..n -> MappedIds] : n \in 0..MaxIds} :
          call = [op |-> "_map_clusters_to_labels", cluster_labels |-> cluster_labels]
    /\ ret = Idle
    /\ NoJobs
    /\ NoRuns
    /\ dataset = NoDataset

map_to_polarity ==
    /\ call.op = "_map_clusters_to_labels"
    /\ ret = Idle
    /\ ret' = [op |-> "mapped", labels |-> map_clusters_to_labels(call.cluster_labels)]
    /\ UNCHANGED <<call, jobVars, cleanVars>>

SpecClusterMap == ClusterMapInit /\ [][map_to_polarity]_vars

\* C13: map_to_polarity returns one label per input cluster id and every
\* returned label is 0, 2 or 4, for every array of integer cluster ids
\* including -1 and other negative ids and including more than three
\* distinct ids.
C13_LabelsInPolarityDomain ==
    ret.op = "mapped" =>
       /\ Len(ret.labels) = Len(call.cluster_labels)
       /\ \A i \in 1..Len(ret.labels) : ret.labels[i] \in {0, 2, 4}

\* four clusters and a negative id other than the noise id, mapped
C13_Witness ==
    /\ ret.op = "mapped"
    /\ call.cluster_labels = <<3, -2, 0, 1, 2>>
    /\ ret.labels = <<2, 2, 0, 2, 4>>

(***************************************************************************)
(* The two copies of jaccard_distance.  A distance is the fraction         *)
(* num/den = 1 - intersection_size / union_size; den = 0 stands for a      *)
(* division by zero.                                                       *)
(***************************************************************************)
\* jaccard_distance of label_service.py
label_jaccard_distance(tweet1, tweet2) ==
    LET set1 == WordSet(tweet1)
        set2 == WordSet(tweet2)
        intersection_size == Cardinality(set1 \cap set2)
        union_size == Cardinality(set1 \cup set2)
    IN  IF set1 = {} /\ set2 = {} THEN [num |-> 0, den |-> 1]
        ELSE [num |-> union_size - intersection_size, den |-> union_size]

JaccardTexts ==
    Tweets \cup {<<>>, <<" ">>, <<"b">>, <<"a", " ", "c">>}

JaccardInit ==
    /\ \E tweet1 \in JaccardTexts, tweet2 \in JaccardTexts :
          call = [op |-> "jaccard_distance", tweet1 |-> tweet1, tweet2 |-> tweet2]
    /\ ret = Idle
    /\ NoJobs
    /\ NoRuns
    /\ dataset = NoDataset

\* the calls of the two copies on the pair, on the pair turned round and on
\* the first text with itself
jaccard_distances ==
    /\ call.op = "jaccard_distance"
    /\ ret = Idle
    /\ ret' = [op |-> "distances",
               train |-> jaccard_distance(call.tweet1, call.tweet2),
               train_reverse |-> jaccard_distance(call.tweet2, call.tweet1),
               train_self |-> jaccard_distance(call.tweet1, call.tweet1),
               label |-> label_jaccard_distance(call.tweet1, call.tweet2),
               label_reverse |-> label_jaccard_distance(call.tweet2, call.tweet1),
               label_self |-> label_jaccard_distance(call.tweet1, call.tweet1)]
    /\ UNCHANGED <<call, jobVars, cleanVars>>

SpecJaccard == JaccardInit /\ [][jaccard_distances]_vars

\* C14: jaccard_distance is symmetric for all pairs of texts; d(a,a) = 0 for
\* every text; d of two texts with empty token sets is 0 and no input
\* causes a division by zero; and the two copies of the function return the
\* same value on every pair.
C14_JaccardDistance ==
    ret.op = "distances" =>
       /\ ret.train = ret.train_reverse
       /\ ret.label = ret.label_reverse
       /\ ret.train_self.num = 0
       /\ ret.label_self.num = 0
       /\ (WordSet(call.tweet1) = {} /\ WordSet(call.tweet2) = {}) =>
             (ret.train.num = 0 /\ ret.label.num = 0)
       /\ \A d \in {ret.train, ret.train_reverse, ret.train_self,
                    ret.label, ret.label_reverse, ret.label_self} : d.den > 0
       /\ ret.train = ret.label

\* a text without words against a text with words: distance 1 both ways
C14_Witness ==
    /\ ret.op = "distances"
    /\ call.tweet1 = <<" ">>
    /\ call.tweet2 = <<"a", " ", "b">>
    /\ ret.train = [num |-> 2, den |-> 2]
    /\ ret.label_reverse = [num |-> 2, den |-> 2]

(***************************************************************************)
(* Claims about the manual labeling job.                                   *)
(***************************************************************************)
\* the rows, counted from 0, that an annotation in range names
AnnotatedRows ==
    {call.annotations[n].row_index : n \in 1..Len(call.annotations)} \cap 0..Len(call.df) - 1

\* C15: with stop_early true, the labeled file persisted by a manual labeling
\* job contains exactly the rows whose index was named by an in-range
\* annotation, and no row that received no annotation.
C15_StopEarlyKeepsAnnotatedRows ==
    (ret.op = "manual" /\ call.stop_early) =>
       ret.file = Select(ApplyAnnotations(call.df, call.annotations, Len(call.annotations)),
                         [i \in 1..Len(call.df) |-> i - 1 \in AnnotatedRows])

(***************************************************************************)
(* The keyword map of a naive labeling request.                            *)
(***************************************************************************)
\* C16: when a naive labeling request supplies a keyword_map, the job scores
\* every row against exactly the classes and keywords of that map and writes
\* those labels; the default keyword files are not what decides the labels.
C16_SuppliedKeywordMapUsed ==
    (call.op = "naive" /\ call.keyword_map # <<>> /\ ret # Idle) =>
        /\ ret.op = "naive"
        /\ ret.file = SetColumn(call.df, 0,
                         label_naive_by_keywords(call.df, call.keyword_map,
                                                 find_text_column_index(call.df)))

(***************************************************************************)
(* The row counts a completed cleaning run reports.                        *)
(***************************************************************************)
\* the row counts are in the metrics and final_rows <= initial_rows,
\* rows_removed = initial_rows - final_rows >= 0
RowCountsAgree(metrics) ==
    /\ {"initial_rows", "final_rows", "rows_removed"} \subseteq DOMAIN metrics
    /\ metrics["final_rows"] <= metrics["initial_rows"]
    /\ metrics["rows_removed"] = metrics["initial_rows"] - metrics["final_rows"]
    /\ metrics["rows_removed"] >= 0

\* C17: in every completed cleaning run the reported final_rows is at most
\* the reported initial_rows and rows_removed = initial_rows - final_rows
\* >= 0; a run whose final table has no rows has still written its file,
\* the line of the column labels alone.
C17_RowCountsOfCompletedRun ==
    \A r \in Runs :
       run[r].at = "done" =>
          /\ RowCountsAgree(run[r].metrics)
          /\ run[r].df = <<>> => run[r].cleaned_file = <<run[r].columns>>

(***************************************************************************)
(* The max_length rule alone.                                              *)
(***************************************************************************)
\* the rows whose cell of column c is null or has at most n characters
WithinLength(df, c, n) ==
    Select(df, [i \in 1..Len(df) |-> isna(df[i][c + 1]) \/ Len(df[i][c + 1]) <= n])

\* C18: under a max_length rule with bound n >= 1 the rows retained are the
\* rows whose cell is null and the rows whose cell, as a string, has at most
\* n characters.
C18_MaxLengthKeepsNull ==
    (/\ ret.op = "validate"
     /\ Len(call.validations) = 1
     /\ call.validations[1].validation_type = "max_length"
     /\ call.validations[1].max_length >= 1
     /\ ColumnIndex(call.validations[1].column, call.df, ColumnMapping) # -1) =>
        ret.df = WithinLength(call.df,
                              ColumnIndex(call.validations[1].column, call.df, ColumnMapping),
                              call.validations[1].max_length)

(***************************************************************************)
(* _clean_text applied to one text under every combination of its flags.   *)
(***************************************************************************)
\* texts with URL tokens, runs of spaces, a retweet, a hashtag, mentions,
\* emoticons, tags and an e-mail address
CleanTexts ==
    {<<"a", " ", "h", "t", "t", "p", ":", "/", "/", "x", " ", "b">>,
     <<"h", "t", "t", "p", ":", "/", "/", "y", ".", "z">>,
     <<"c", " ", "w", "w", "w", ".", "d", " ", "e">>,
     <<" ", "a", " ", " ", "b", " ">>,
     <<"R", "T", " ", "f">>,
     <<" ", "#", "g", " ", "@", "h">>,
     <<"i", " ", ":", ")", " ", ":", "(">>,
     <<"<", "b", ">", "j", "<", "/", "b", ">">>,
     <<"k", "@", "l", ".", "m", "n", " ", "h", "t", "t", "p", "s", ":", "/", "/", "o">>,
     <<"q", " ", "h", "t", "t", "p", ":", "/", "/", "_", "@", "r">>}

\* TextCleaningOptions, every combination of the flags (the language
\* filter off)
TextFlagSets ==
    [text_columns : {<<<<"1">>>>}, remove_urls : BOOLEAN, remove_retweets : BOOLEAN,
     remove_hashtags : BOOLEAN, remove_mentions : BOOLEAN, remove_numbers : BOOLEAN,
     remove_html_tags : BOOLEAN, remove_extra_spaces : BOOLEAN,
     remove_contradictory_emojis : BOOLEAN]

CleanTextInit ==
    /\ \E text \in CleanTexts, options \in TextFlagSets :
          call = [op |-> "clean_text", text |-> text, options |-> options]
    /\ ret = Idle
    /\ NoJobs
    /\ NoRuns
    /\ dataset = NoDataset

clean_one_text ==
    /\ call.op = "clean_text"
    /\ ret = Idle
    /\ ret' = [op |-> "cleaned"] @@ clean_text(call.text, call.options, EmptyMetrics)
    /\ UNCHANGED <<call, jobVars, cleanVars>>

SpecCleanText == CleanTextInit /\ [][clean_one_text]_vars

\* C19: whenever remove_extra_spaces is set, whatever the other flags, a
\* non-empty result of _clean_text has no two adjacent whitespace characters
\* and neither starts nor ends with whitespace.
C19_NoExtraSpaces ==
    (ret.op = "cleaned" /\ call.options.remove_extra_spaces /\ ret.text # <<>>) =>
        /\ Head(ret.text) \notin SpaceChars
        /\ ret.text[Len(ret.text)] \notin SpaceChars
        /\ \A i \in 1..Len(ret.text) - 1 :
              ~(ret.text[i] \in SpaceChars /\ ret.text[i + 1] \in SpaceChars)

\* the positions of the text that the matches of https?://\S+|www\.[^\s]+
\* cover, the matches taken from the left from position i on
RECURSIVE UrlPositions(_, _)
UrlPositions(text, i) ==
    IF i > Len(text) THEN {}
    ELSE IF UrlLen(text, i) > 0
      THEN i..(i + UrlLen(text, i) - 1) \cup UrlPositions(text, i + UrlLen(text, i))
    ELSE UrlPositions(text, i + 1)

\* the characters the text has in its URL tokens and nowhere else
UrlOnlyChars(text) ==
    {text[i] : i \in UrlPositions(text, 1)}
       \ {text[i] : i \in (1..Len(text)) \ UrlPositions(text, 1)}

\* C20: whenever remove_urls is set, whatever the other flags, no part of an
\* http://, https:// or www. token of the input is left in the result of
\* _clean_text: a character the input has in such tokens only is not in the
\* result.
C20_NoUrlPartSurvives ==
    (ret.op = "cleaned" /\ call.options.remove_urls) =>
        \A i \in 1..Len(ret.text) : ret.text[i] \notin UrlOnlyChars(call.text)

(***************************************************************************)
(* The heap of CustomKNN.predict_one during the scan.                      *)
(***************************************************************************)
\* the distance of the n-th item of the knowledge base to the query
DistanceOf(n) == jaccard_distance(call.knowledge_base[n].tweet, call.new_tweet)

\* f pairs each entry of the heap with an item of its own among the first n,
\* of the entry's distance and label, and no item left out is nearer than
\* an entry
PicksNearest(heap, f, n) ==
    /\ \A i, j \in 1..Len(heap) : i # j => f[i] # f[j]
    /\ \A i \in 1..Len(heap) :
          /\ Same(heap[i].d, DistanceOf(f[i]))
          /\ heap[i].c = call.knowledge_base[f[i]].c
    /\ \A m \in 1..n : (\A i \in 1..Len(heap) : f[i] # m) =>
          \A i \in 1..Len(heap) : ~Greater(heap[i].d, DistanceOf(m))

\* C21: in predict_one with k >= 1, after each item of the knowledge base
\* the heap has at most k entries; after n items it has min(k, n) entries,
\* their distances are the min(k, n) smallest distances to the query, and
\* each entry carries the label of the item it came from.
C21_HeapHoldsNearest ==
    call.op = "predict_one" =>
       /\ Len(ret.closest_neighbors) <= call.k
       /\ Len(ret.closest_neighbors) = (IF call.k < ret.n THEN call.k ELSE ret.n)
       /\ \E f \in [1..Len(ret.closest_neighbors) -> 1..ret.n] :
             PicksNearest(ret.closest_neighbors, f, ret.n)

\* a scan of three items with k = 2 in which the first item, farther than
\* the two after it, has left the heap
C21_Witness ==
    /\ ret.op = "predicted"
    /\ call.k = 2
    /\ Len(call.knowledge_base) = 3
    /\ Greater(DistanceOf(1), DistanceOf(2))
    /\ Greater(DistanceOf(1), DistanceOf(3))
    /\ \A i \in 1..Len(ret.closest_neighbors) :
          ~Same(ret.closest_neighbors[i].d, DistanceOf(1))

(***************************************************************************)
(* CustomNaiveBayes fitted once or again on other data.                    *)
(***************************************************************************)
MaxFits == 2

\* the training sets of fewer texts than the longest
RefitSets == {training \in TrainingSets : Len(training) < MaxDocs}

RefitInit ==
    /\ \E fits \in UNION {[1..n -> RefitSets] : n \in 1..MaxFits},
          ngram \in {"unigram", "bigram", "trigram"}, feature_rep \in {"count", "binary"} :
          call = [op |-> "refit", ngram |-> ngram, feature_rep |-> feature_rep, fits |-> fits]
    /\ ret = [op |-> "fits", n |-> 0, model |-> NewBayes]
    /\ NoJobs
    /\ NoRuns
    /\ dataset = NoDataset

\* the next call of fit on the instance
nb_fit_again ==
    /\ call.op = "refit"
    /\ ret.n < Len(call.fits)
    /\ ret' = [ret EXCEPT !.n = @ + 1,
                          !.model = fit(@, [i \in 1..Len(call.fits[ret.n + 1]) |-> call.fits[ret.n + 1][i].text],
                                        [i \in 1..Len(call.fits[ret.n + 1]) |-> call.fits[ret.n + 1][i].c],
                                        call.ngram, call.feature_rep)]
    /\ UNCHANGED <<call, jobVars, cleanVars>>

SpecRefit == RefitInit /\ [][nb_fit_again]_vars

\* the tokens and the classes of a training set
TokensOf(training, ngram) ==
    UNION {TokenSet(tokenize(training[i].text, ngram)) : i \in 1..Len(training)}

ClassesOf(training) == {training[i].c : i \in 1..Len(training)}

\* C22: after each call of fit on an instance, fitted before or not, the
\* vocabulary is the set of tokens of the texts of that call, and the prior
\* and likelihood tables have the classes of the labels of that call and no
\* other.
C22_FitCoversItsData ==
    (call.op = "refit" /\ ret.n >= 1) =>
       /\ ret.model.vocabulary = TokensOf(call.fits[ret.n], call.ngram)
       /\ DOMAIN ret.model.class_prior = ClassesOf(call.fits[ret.n])
       /\ DOMAIN ret.model.Pxy = ClassesOf(call.fits[ret.n])
       /\ \A c \in DOMAIN ret.model.Pxy :
             DOMAIN ret.model.Pxy[c] = TokensOf(call.fits[ret.n], call.ngram)

(***************************************************************************)
(* align_clusters_to_labels.  linear_sum_assignment is a library call: it  *)
(* returns some assignment of the smaller side of the matrix, one-to-one,  *)
(* of the least total cost.                                                 *)
(***************************************************************************)
MaxAligned == 3

\* np.unique
unique(array) == {array[i] : i \in 1..Len(array)}

\* cost_matrix[i, j] summed over the pairs of an assignment: the rows whose
\* true label and cluster id are a pair of it
Matched(true_labels, cluster_labels, pairs) ==
    Cardinality({i \in 1..Len(true_labels) : <<true_labels[i], cluster_labels[i]>> \in pairs})

OneToOne(pairs) == \A p, q \in pairs : p # q => (p[1] # q[1] /\ p[2] # q[2])

\* what zip(row_ind, col_ind) can be: every row or every column assigned
Assignments(unique_labels, unique_clusters) ==
    {pairs \in SUBSET (unique_labels \X unique_clusters) :
        /\ OneToOne(pairs)
        /\ \/ Cardinality(pairs) = Cardinality(unique_labels)
           \/ Cardinality(pairs) = Cardinality(unique_clusters)}

\* linear_sum_assignment(-cost_matrix)
linear_sum_assignment(true_labels, cluster_labels) ==
    {pairs \in Assignments(unique(true_labels), unique(cluster_labels)) :
        \A other \in Assignments(unique(true_labels), unique(cluster_labels)) :
           Matched(true_labels, cluster_labels, other) <= Matched(true_labels, cluster_labels, pairs)}

\* the least of a set of numbers: unique_labels[0]
Least(S) == CHOOSE m \in S : \A n \in S : m <= n

\* the unmapped clusters given the last of the true labels
align_clusters_to_labels_mut(true_labels, cluster_labels, pairs) ==
    [i \in 1..Len(cluster_labels) |->
        IF \E p \in pairs : p[2] = cluster_labels[i]
          THEN (CHOOSE p \in pairs : p[2] = cluster_labels[i])[1]
          ELSE Greatest(unique(true_labels))]

\* the mapping of the assignment, the unmapped clusters given
\* unique_labels[0], applied to cluster_labels
align_clusters_to_labels(true_labels, cluster_labels, pairs) ==
    [i \in 1..Len(cluster_labels) |->
        IF \E p \in pairs : p[2] = cluster_labels[i]
          THEN (CHOOSE p \in pairs : p[2] = cluster_labels[i])[1]
          ELSE Least(unique(true_labels))]

AlignInit ==
    /\ \E rows \in UNION {[1..n -> [label : {0, 2, 4}, cluster : 0..3]] : n \in 0..MaxAligned} :
          call = [op |-> "align", true_labels |-> [i \in 1..Len(rows) |-> rows[i].label],
                  cluster_labels |-> [i \in 1..Len(rows) |-> rows[i].cluster]]
    /\ ret = Idle
    /\ NoJobs
    /\ NoRuns
    /\ dataset = NoDataset

align ==
    /\ call.op = "align"
    /\ ret = Idle
    /\ \E pairs \in linear_sum_assignment(call.true_labels, call.cluster_labels) :
          ret' = [op |-> "aligned", pairs |-> pairs,
                  aligned |-> align_clusters_to_labels(call.true_labels, call.cluster_labels, pairs)]
    /\ UNCHANGED <<call, jobVars, cleanVars>>

SpecAlign == AlignInit /\ [][align]_vars

\* C23: align_clusters_to_labels returns one label per row through a mapping
\* of clusters to labels: the pairs the solver assigned are one-to-one and
\* match the most rows any one-to-one assignment matches, a cluster without
\* a pair gets the first true label, every value returned is a true label,
\* and with no fewer clusters than true labels every true label is returned.
C23_AlignedThroughBestAssignment ==
    ret.op = "aligned" =>
       /\ Len(ret.aligned) = Len(call.true_labels)
       /\ OneToOne(ret.pairs)
       /\ \A other \in SUBSET (unique(call.true_labels) \X unique(call.cluster_labels)) :
             OneToOne(other) =>
                Matched(call.true_labels, call.cluster_labels, other)
                   <= Matched(call.true_labels, call.cluster_labels, ret.pairs)
       /\ \A i \in 1..Len(ret.aligned) :
             /\ ret.aligned[i] \in unique(call.true_labels)
             /\ <<ret.aligned[i], call.cluster_labels[i]>> \in ret.pairs
                \/ /\ \A p \in ret.pairs : p[2] # call.cluster_labels[i]
                   /\ \A label \in unique(call.true_labels) : ret.aligned[i] <= label
       /\ Cardinality(unique(call.cluster_labels)) >= Cardinality(unique(call.true_labels)) =>
             unique(ret.aligned) = unique(call.true_labels)

\* three clusters on rows of two true labels: one cluster has no pair and
\* gets the first label, its rows being of the other label
C23_Witness ==
    /\ ret.op = "aligned"
    /\ call.true_labels = <<2, 4, 4>>
    /\ call.cluster_labels = <<0, 1, 2>>
    /\ ret.pairs = {<<2, 0>>, <<4, 1>>}
    /\ ret.aligned = <<2, 4, 2>>

(***************************************************************************)
(* _run_hierarchical_clustering.  linkage and fcluster are library calls:  *)
(* linkage merges, one pair at a time, two clusters at the least distance  *)
(* (any such pair), and fcluster(Z, k, 'maxclust') cuts at the lowest      *)
(* threshold that leaves no more than k flat clusters.  Distances are kept *)
(* as multiples of 1/12, the union of two word sets having 1 to 4 words.   *)
(***************************************************************************)
MaxItems == 3

ClusterTexts == Tweets \cup {<<"b">>}

\* method(tweets[i], tweets[j]) in twelfths
ScaledDistance(distance) == distance.num * (12 \div distance.den)

\* create_distance_matrix(tweets, jaccard_distance)
create_distance_matrix(tweets) ==
    [i \in 1..Len(tweets) |->
        [j \in 1..Len(tweets) |->
            IF i = j THEN 0
            ELSE IF i < j THEN ScaledDistance(label_jaccard_distance(tweets[i], tweets[j]))
            ELSE ScaledDistance(label_jaccard_distance(tweets[j], tweets[i]))]]

\* the sum of the distances between the items of two clusters
SumBetween(D, A, B) ==
    SumTo([p \in 1..Len(D) * Len(D) |->
             IF ((p - 1) \div Len(D)) + 1 \in A /\ ((p - 1) % Len(D)) + 1 \in B
               THEN D[((p - 1) \div Len(D)) + 1][((p - 1) % Len(D)) + 1] ELSE 0],
          Len(D) * Len(D))

\* the distance between two clusters under a linkage method
ClusterDistance(D, A, B, method) ==
    CASE method = "single" -> [num |-> Least({D[a][b] : a \in A, b \in B}), den |-> 1]
      [] method = "complete" -> [num |-> Greatest({D[a][b] : a \in A, b \in B}), den |-> 1]
      [] OTHER -> [num |-> SumBetween(D, A, B), den |-> Cardinality(A) * Cardinality(B)]

\* the pairs of clusters linkage can merge next
ClosestPairs(D, clusters, method) ==
    {pair \in clusters \X clusters :
        /\ pair[1] # pair[2]
        /\ \A other \in clusters \X clusters :
              other[1] # other[2] =>
                 ~Greater(ClusterDistance(D, pair[1], pair[2], method),
                          ClusterDistance(D, other[1], other[2], method))}

\* whether the dendrogram can be cut after its first m merges: the next
\* merge is higher
CutAfter(Z, m) == m = 0 \/ m = Len(Z) \/ Greater(Z[m + 1].height, Z[m].height)

\* the fewest merges that leave no more than k + 1 clusters
MergesUnder_mut(Z, k) ==
    Least({m \in 0..Len(Z) : CutAfter(Z, m) /\ Len(Z) + 1 - m <= k + 1})

\* the merges under the threshold of fcluster(Z, k, criterion='maxclust'):
\* the fewest that leave no more than k clusters
MergesUnder(Z, k) ==
    Least({m \in 0..Len(Z) : CutAfter(Z, m) /\ Len(Z) + 1 - m <= k})

\* the flat cluster of item i after the first m merges
FlatCluster(Z, m, i) == {i} \cup UNION {Z[n].members : n \in {n \in 1..m : i \in Z[n].members}}

\* fcluster(Z, k, criterion='maxclust'): the number of its flat cluster for
\* each item
fcluster(Z, k, numbering) ==
    [i \in 1..Len(Z) + 1 |-> numbering[FlatCluster(Z, MergesUnder(Z, k), i)]]

\* the ways fcluster can number the flat clusters from 1 on
Numberings(Z, k) ==
    {numbering \in [{FlatCluster(Z, MergesUnder(Z, k), i) : i \in 1..Len(Z) + 1}
                      -> 1..Len(Z) + 1 - MergesUnder(Z, k)] :
        \A A, B \in DOMAIN numbering : A # B => numbering[A] # numbering[B]}

HierarchicalInit ==
    /\ \E tweets \in UNION {[1..n -> ClusterTexts] : n \in 0..MaxItems}, k \in 1..MaxItems,
          linkage_method \in {"single", "complete", "average"} :
          call = [op |-> "hierarchical", tweets |-> tweets, k |-> k,
                  linkage_method |-> linkage_method]
    /\ ret = Idle
    /\ NoJobs
    /\ NoRuns
    /\ dataset = NoDataset

\* create_distance_matrix and squareform; linkage raises on fewer than two
\* observations
hc_distance_matrix ==
    /\ call.op = "hierarchical"
    /\ ret = Idle
    /\ ret' = IF Len(call.tweets) < 2 THEN [op |-> "failed"]
              ELSE [op |-> "linkage", D |-> create_distance_matrix(call.tweets),
                    forest |-> {{i} : i \in 1..Len(call.tweets)}, Z |-> <<>>]
    /\ UNCHANGED <<call, jobVars, cleanVars>>

\* one merge of linkage(D_condensed, method=linkage_method)
hc_linkage ==
    /\ call.op = "hierarchical"
    /\ ret.op = "linkage"
    /\ Cardinality(ret.forest) > 1
    /\ \E pair \in ClosestPairs(ret.D, ret.forest, call.linkage_method) :
          ret' = [ret EXCEPT
                     !.forest = (@ \ {pair[1], pair[2]}) \cup {pair[1] \cup pair[2]},
                     !.Z = Append(@, [members |-> pair[1] \cup pair[2],
                                      height |-> ClusterDistance(ret.D, pair[1], pair[2],
                                                                 call.linkage_method)])]
    /\ UNCHANGED <<call, jobVars, cleanVars>>

hc_fcluster ==
    /\ call.op = "hierarchical"
    /\ ret.op = "linkage"
    /\ Cardinality(ret.forest) = 1
    /\ \E numbering \in Numberings(ret.Z, call.k) :
          ret' = [op |-> "clustered", Z |-> ret.Z, clusters |-> fcluster(ret.Z, call.k, numbering)]
    /\ UNCHANGED <<call, jobVars, cleanVars>>

HierarchicalNext == hc_distance_matrix \/ hc_linkage \/ hc_fcluster

SpecHierarchical == HierarchicalInit /\ [][HierarchicalNext]_vars

\* C24 as stated: hierarchical clustering of a list of items into k
\* clusters returns one cluster id per item and exactly k distinct ids, for
\* every list, lists with equal distances and lists shorter than k
\* included.
C24_ExactlyKClusters ==
    (call.op = "hierarchical" /\ ret.op \in {"failed", "clustered"}) =>
       /\ ret.op = "clustered"
       /\ Len(ret.clusters) = Len(call.tweets)
       /\ Cardinality(unique(ret.clusters)) = call.k

\* C24 amended: hierarchical clustering of a list of at least two items
\* into k clusters returns one cluster id per item and at least one and at
\* most k distinct ids.
C24_AtMostKClusters ==
    (call.op = "hierarchical" /\ ret.op \in {"failed", "clustered"} /\ Len(call.tweets) >= 2) =>
       /\ ret.op = "clustered"
       /\ Len(ret.clusters) = Len(call.tweets)
       /\ Cardinality(unique(ret.clusters)) \in 1..call.k

\* three items at equal distances cut for two clusters: the two merges are
\* of one height and one cluster is left
C24_Witness ==
    /\ ret.op = "clustered"
    /\ Len(call.tweets) = 3
    /\ call.k = 2
    /\ Same(ret.Z[1].height, ret.Z[2].height)
    /\ Cardinality(unique(ret.clusters)) = 1

(***************************************************************************)
(* The polarity of the winning class name of the keyword labeler.          *)
(***************************************************************************)
\* the name of the one class of which a keyword occurs in the text,
\* lowercased; the empty name when there is no such class or more than one
WinningName ==
    IF Cardinality(ClassesOccurring(call.keyword_map, lower(astype_str(call.df[1][1])))) = 1
      THEN lower(call.keyword_map[CHOOSE n \in 1..Len(call.keyword_map) :
                    ClassesOccurring(call.keyword_map, lower(astype_str(call.df[1][1]))) = {n}].label)
      ELSE <<>>

\* C25 as stated: the keyword labeler gives 4 for a winning class name that
\* contains "positive", "pos" or "4", 0 for one that contains "negative",
\* "neg" or "0", and 2 for every other name.
C25_PolarityByContainment ==
    (ret.op = "keywords" /\ WinningName # <<>>) =>
       ret.labels[1] =
          IF \/ Contains(WinningName, <<"p", "o", "s">>)
             \/ Contains(WinningName, <<"4">>)
            THEN 4
          ELSE IF \/ Contains(WinningName, <<"n", "e", "g">>)
                  \/ Contains(WinningName, <<"0">>)
            THEN 0
          ELSE 2

(***************************************************************************)
(* Duplicate rows in the file a cleaning run writes.                       *)
(***************************************************************************)
\* C26: when remove_duplicates is enabled, the table written by a completed
\* cleaning run has no two identical rows, whatever the other options (text
\* cleaning, missing-value rules, column projection).
C26_NoDuplicateRowsWritten ==
    \A r \in Runs :
       (run[r].at = "done" /\ run[r].options.remove_duplicates) =>
          \A i, j \in 2..Len(run[r].cleaned_file) :
             i # j => run[r].cleaned_file[i] # run[r].cleaned_file[j]

(***************************************************************************)
(* predict_new_dataset beside the training jobs of the session.            *)
(***************************************************************************)
\* get_trained_model_for_session: the record of trained_models created
\* last, None when the session has none; records are created in the order
\* of the job ids
get_trained_model_for_session ==
    IF \A j \in JobIds : models[j] = NoModel THEN None
    ELSE models[Greatest({j \in JobIds : models[j] # NoModel})].model_file

\* predict_new_dataset up to the test of the model record: it raises "You
\* need to train a model first" or goes on with the model file it found
predict_new_dataset ==
    /\ ret' = [op |-> "predict",
               model_file |-> IF get_trained_model_for_session = None THEN "raised"
                              ELSE get_trained_model_for_session]
    /\ ret' # ret
    /\ UNCHANGED <<call, jobVars, cleanVars>>

PredictNext == JobsNext \/ predict_new_dataset

SpecPredict == JobsInit /\ [][PredictNext]_vars

\* C27: if the session has a model whose training job completed,
\* predict_new_dataset finds a model artifact to load, also when a later
\* training job of the session is queued, running or failed.
C27_TrainedModelFound ==
    [][(/\ ret' # ret
        /\ ret'.op = "predict"
        /\ \E j \in JobIds : /\ jobs[j].kind = "train"
                              /\ jobs[j].status = "completed"
                              /\ models[j].model_file = "model.pkl")
          => ret'.model_file = "model.pkl"]_vars

(***************************************************************************)
(* Successive manual labeling jobs on one dataset (label_single_row).      *)
(***************************************************************************)
MaxLabelings == 2

RelabelInit ==
    /\ \E raw \in LabelTables, requests \in UNION {[1..n -> Annotations] : n \in 1..MaxLabelings} :
          call = [op |-> "relabel", df |-> read_csv(raw), requests |-> requests]
    /\ ret = [op |-> "labeling", labeled_file |-> <<>>, status |-> <<>>]
    /\ NoJobs
    /\ NoRuns
    /\ dataset = NoDataset

\* the job of the next label_single_row request, run to its end:
\* run_manual_labeling_job loads the cleaned file, applies the one
\* annotation and uploads to labeled/<dataset_id>_labeled.csv; the upload
\* replaces the file or raises
label_single_row(outcome) ==
    /\ call.op = "relabel"
    /\ Len(ret.status) < Len(call.requests)
    /\ ret' = IF outcome = "ok"
                THEN [ret EXCEPT !.labeled_file =
                                     ApplyAnnotations(call.df, <<call.requests[Len(ret.status) + 1]>>, 1),
                                 !.status = Append(@, "completed")]
                ELSE [ret EXCEPT !.status = Append(@, "error")]
    /\ UNCHANGED <<call, jobVars, cleanVars>>

RelabelNext == \E outcome \in Outcomes : label_single_row(outcome)

SpecRelabel == RelabelInit /\ [][RelabelNext]_vars

\* C28: after a completed manual labeling job that labels row i and a later
\* completed job that labels another row j of the same dataset, the labeled
\* file holds both labels.
C28_LabelsAccumulate ==
    (/\ call.op = "relabel"
     /\ ret.status = <<"completed", "completed">>
     /\ call.requests[1].row_index # call.requests[2].row_index
     /\ call.requests[1].row_index < Len(call.df)
     /\ call.requests[2].row_index < Len(call.df)) =>
        /\ ret.labeled_file[call.requests[1].row_index + 1][1] = str(call.requests[1].label)
        /\ ret.labeled_file[call.requests[2].row_index + 1][1] = str(call.requests[2].label)

(***************************************************************************)
(* A training run on the file a labeling job wrote.                        *)
(***************************************************************************)
MaxLabeled == 5

\* _write_labeled_file_and_store: df.to_csv(csv_buf, index=False,
\* header=False), a line for each row and no line of column labels
write_labeled_file(df) == [i \in 1..Len(df) |-> [c \in 1..Len(df[i]) |-> CsvField(df[i][c])]]

\* load_csv_from_storage: pd.read_csv(io.StringIO(text)) takes the first
\* line of the file for the column labels and the lines after it for rows
load_csv_from_storage(lines) == [columns |-> Head(lines), df |-> read_csv(Tail(lines))]

\* the size of the validation part: ceil(test_size * n_samples)
n_test(n_samples, test_size) == (test_size.num * n_samples + test_size.den - 1) \div test_size.den

\* whether train_test_split(X_text, y, stratify=y, test_size=test_size)
\* raises: a part without a sample, a class of one member, or a part with
\* fewer samples than classes
SplitRaises(y, test_size) ==
    \/ Len(y) - n_test(Len(y), test_size) < 1
    \/ \E c \in unique(y) : ClassCount(y, c) < 2
    \/ n_test(Len(y), test_size) < Cardinality(unique(y))
    \/ Len(y) - n_test(Len(y), test_size) < Cardinality(unique(y))

TrainLoadInit ==
    /\ \E df \in UNION {[1..n -> {<<str(label), text>> : label \in {0, 4}, text \in LabelFields1}] :
                          n \in 1..MaxLabeled},
          test_size \in {[num |-> 1, den |-> 5], [num |-> 3, den |-> 10]} :
          call = [op |-> "train", df |-> df, test_size |-> test_size]
    /\ ret = Idle
    /\ NoJobs
    /\ NoRuns
    /\ dataset = NoDataset

\* the labeling job writes the labeled file
write_labeled ==
    /\ call.op = "train"
    /\ ret = Idle
    /\ ret' = [op |-> "labeled", labeled_file |-> write_labeled_file(call.df)]
    /\ UNCHANGED <<call, jobVars, cleanVars>>

\* run_training_job on the labeled file, from the load to the sizes it
\* stores with the model
run_training_job ==
    /\ call.op = "train"
    /\ ret.op = "labeled"
    /\ ret' = IF SplitRaises(Column(load_csv_from_storage(ret.labeled_file).df, 0), call.test_size)
                THEN [op |-> "failed", df |-> load_csv_from_storage(ret.labeled_file).df]
                ELSE [op |-> "trained", df |-> load_csv_from_storage(ret.labeled_file).df,
                      val_size |-> n_test(Len(ret.labeled_file) - 1, call.test_size),
                      train_size |-> Len(ret.labeled_file) - 1
                                     - n_test(Len(ret.labeled_file) - 1, call.test_size)]
    /\ UNCHANGED <<call, jobVars, cleanVars>>

TrainLoadNext == write_labeled \/ run_training_job

SpecTrainLoad == TrainLoadInit /\ [][TrainLoadNext]_vars

\* C29: a training run on a labeled file uses every row of it: train_size +
\* val_size is the number of rows the labeling job wrote, and the row
\* written first is among the rows that are split.
C29_EveryLabeledRowUsed ==
    (call.op = "train" /\ ret.op = "trained") =>
       /\ ret.train_size + ret.val_size = Len(call.df)
       /\ ret.df # <<>>
       /\ ret.df[1] = call.df[1]

(***************************************************************************)
(* The unique_id rule beside other rules.                                  *)
(***************************************************************************)
\* row i of the input passes rule v, a rule that computes no mask passed by
\* every row
PassesRule(v, df, i) ==
    RuleActive(v, df, ColumnMapping) =>
       /\ ~PolarityRaises(v, Column(df, ColumnIndex(v.column, df, ColumnMapping)))
       /\ ColMask(v, Column(df, ColumnIndex(v.column, df, ColumnMapping)))[i]

\* row i passes every configured rule that is not a unique_id rule
PassesOtherRules(validations, df, i) ==
    \A n \in 1..Len(validations) :
       validations[n].validation_type # "unique_id" => PassesRule(validations[n], df, i)

\* C30: column validation with a unique_id rule on column c beside other
\* rules loses no id value: when an input row with the value v in c passes
\* every other rule, the validated table has exactly one row with v in c.
C30_UniqueIdKeepsEveryValue ==
    ret.op = "validate" =>
       \A n \in 1..Len(call.validations) :
          (/\ call.validations[n].validation_type = "unique_id"
           /\ RuleActive(call.validations[n], call.df, ColumnMapping)) =>
             \A i \in 1..Len(call.df) :
                (/\ ~isna(Column(call.df, ColumnIndex(call.validations[n].column, call.df, ColumnMapping))[i])
                 /\ Column(call.df, ColumnIndex(call.validations[n].column, call.df, ColumnMapping))[i] # <<>>
                 /\ PassesOtherRules(call.validations, call.df, i)) =>
                   Cardinality({k \in 1..Len(ret.df) :
                                   Column(ret.df, ColumnIndex(call.validations[n].column, call.df, ColumnMapping))[k]
                                   = Column(call.df, ColumnIndex(call.validations[n].column, call.df, ColumnMapping))[i]})
                      = 1

====
